---- MODULE Spec2Model ----
(***************************************************************************)
(* A model of the ASCPI semantic-field engine (release 9.0, with the        *)
(* release 10.0 variants where they differ).                                *)
(*                                                                          *)
(* Real numbers are fixed-point integers with three decimals: the real x    *)
(* is the integer x * S, S = 1000.  The transcendental functions of the     *)
(* Python math module are integer approximations accurate to a few units    *)
(* in the last place.  The value 1e-12 of the source is below that          *)
(* resolution; wherever the source uses it as a floor or a threshold the    *)
(* model uses EPS, the smallest positive fixed-point number.                *)
(***************************************************************************)
EXTENDS Integers, Sequences, FiniteSets, TLC

\* ------------------------------------------------------------------------
\* Fixed-point arithmetic
\* ------------------------------------------------------------------------
S == 1000

Abs(x) == IF x < 0 THEN -x ELSE x
Max2(a, b) == IF a >= b THEN a ELSE b
Min2(a, b) == IF a <= b THEN a ELSE b
Max3(a, b, c) == Max2(a, Max2(b, c))

\* a * b and a / b on fixed-point numbers, rounded to the nearest unit
Mul(a, b) == (a * b + S \div 2) \div S
Div(a, b) == IF b > 0 THEN (2 * a * S + b) \div (2 * b)
                      ELSE (2 * (-a) * S + (-b)) \div (2 * (-b))

\* §0 CONSTANTS
PHI == 1618
PI == 3142
TAU == 6283
EPS == 1
K_MIN == 10
K_MAX == 10000
PHASE_MAX == 1571
ENERGY_D == 200
LN2 == 693

\* KERNEL parameters other than the damping rate, which the driver mutates
ALPHA0 == 150
BETA == 120
GAMMA == 180
ETA == 250
KCOUP == 500
LAM == 20

RECURSIVE SqrtIter(_, _)
SqrtIter(n, x) ==
  LET y == (x + n \div x) \div 2
  IN IF y >= x THEN x ELSE SqrtIter(n, y)

\* floor of the integer square root
ISqrt(n) == IF n < 2 THEN n ELSE SqrtIter(n, Min2(n, 46340))

\* math.sqrt(a**2 + b**2) on fixed-point numbers
RECURSIVE Hypot(_, _)
Hypot(a, b) ==
  IF Abs(a) > 30000 \/ Abs(b) > 30000
  THEN 2 * Hypot(a \div 2, b \div 2)
  ELSE ISqrt(a * a + b * b)

\* math.sqrt(x) on a fixed-point number 0 <= x
RECURSIVE Sqrt(_)
Sqrt(x) == IF x > 2000000 THEN 2 * Sqrt(x \div 4) ELSE ISqrt(x * S)

\* Bhaskara's rational approximation of sin on [0, PI]
SinHalf(r) ==
  LET p == r * (PI - r)
  IN (16 * p) \div ((5 * PI * PI - 4 * p) \div S)

\* math.sin and math.cos
Sin(x) ==
  LET r == x % TAU
  IN IF r <= PI THEN SinHalf(r) ELSE -SinHalf(r - PI)

Cos(x) == Sin(x + PHASE_MAX)

\* arctangent on [0, 1]
AtanUnit(z) == Mul(785, z) + Mul(Mul(z, S - z), 245 + Mul(66, z))

\* math.atan2(y, x), in (-PI, PI]
Atan2(y, x) ==
  LET ax == Abs(x)
      ay == Abs(y)
      a == IF ax = 0 /\ ay = 0 THEN 0
           ELSE IF ax >= ay THEN AtanUnit(Div(ay, ax))
           ELSE PHASE_MAX - AtanUnit(Div(ax, ay))
      b == IF x < 0 THEN PI - a ELSE a
  IN IF y < 0 THEN -b ELSE b

RECURSIVE Pow2(_)
Pow2(k) == IF k <= 0 THEN 1 ELSE 2 * Pow2(k - 1)

\* e^f for 0 <= f < LN2, by its Taylor series
ExpFrac(f) ==
  LET t2 == Mul(f, f) \div 2
      t3 == Mul(t2, f) \div 3
      t4 == Mul(t3, f) \div 4
      t5 == Mul(t4, f) \div 5
  IN S + f + t2 + t3 + t4 + t5

\* math.exp(x) for x <= 7 (larger arguments are never taken, see Softmax)
Exp(x) ==
  LET k == x \div LN2
      f == x - k * LN2
      e == ExpFrac(f)
  IN IF k >= 0 THEN e * Pow2(k)
     ELSE IF k < -12 THEN 0
     ELSE (e + Pow2(-k) \div 2) \div Pow2(-k)

\* ln(m) for S <= m < 2S, by the series of 2 * atanh((m-1)/(m+1))
LnMant(m) ==
  LET u == Div(m - S, m + S)
      u2 == Mul(u, u)
      u3 == Mul(u2, u)
      u5 == Mul(u3, u2)
  IN 2 * u + (2 * u3) \div 3 + (2 * u5) \div 5

RECURSIVE LogNorm(_, _)
LogNorm(x, k) ==
  IF x >= 2 * S THEN LogNorm(x \div 2, k + 1)
  ELSE IF x < S THEN LogNorm(2 * x, k - 1)
  ELSE k * LN2 + LnMant(x)

\* math.log(x) for a fixed-point x > 0
Log(x) == LogNorm(x, 0)

\* math.tanh(x)
Tanh(x) ==
  LET e == Exp(-2 * Abs(x))
      t == Div(S - e, S + e)
  IN IF x < 0 THEN -t ELSE t

\* ------------------------------------------------------------------------
\* §1 FIELD: the state (dPhi, k, th, N, C) and its step counter t
\* ------------------------------------------------------------------------

\* an enforcement that leaves the phase as it is
PsiEnforceNoWrap(p) ==
  [p EXCEPT !.k = Max2(K_MIN, Min2(K_MAX, Abs(p.k))),
            !.C = Max2(0, Min2(S, p.C)),
            !.N = Max2(EPS, p.N)]

\* Psi._enforce
PsiEnforce(p) ==
  [p EXCEPT !.th = p.th % TAU,
            !.k = Max2(K_MIN, Min2(K_MAX, Abs(p.k))),
            !.C = Max2(0, Min2(S, p.C)),
            !.N = Max2(EPS, p.N)]

\* the dataclass constructor: the fields, then __post_init__
MkPsi(dPhi, k, th, N, C, t) ==
  PsiEnforce([dPhi |-> dPhi, k |-> k, th |-> th, N |-> N, C |-> C, t |-> t])

\* a default state with no coherence and the energy at its floor
PsiZero == MkPsi(0, S, 0, EPS, 0, 0)

\* Psi() with the dataclass defaults
PsiDefault == MkPsi(0, S, 0, S, 500, 0)

Vec(p) == <<p.dPhi, p.k, p.th, p.N, p.C>>

\* Psi.dist
Dist(a, o) ==
  LET d1 == a.dPhi - o.dPhi
      d2 == Log(a.k + EPS) - Log(o.k + EPS)
      d3 == Min2(Abs(a.th - o.th), TAU - Abs(a.th - o.th))
      d4 == Log(a.N + EPS) - Log(o.N + EPS)
  IN Sqrt(Mul(d1, d1) + Mul(d2, d2) + Div(Mul(d3, d3), Mul(PI, PI)) + Mul(d4, d4))

\* Psi.inner
Inner(a, o) ==
  LET phase == Cos(a.th - o.th)
      kappa == S - Div(Abs(a.k - o.k), Max3(a.k, o.k, EPS))
  IN Mul(Mul(phase, kappa), Sqrt(Mul(a.N, o.N)))

\* a blend that counts its step from the left operand alone
BlendSelfStep(a, o, al) ==
  LET be == S - al
      sin_t == Mul(al, Sin(a.th)) + Mul(be, Sin(o.th))
      cos_t == Mul(al, Cos(a.th)) + Mul(be, Cos(o.th))
  IN PsiEnforce(MkPsi(Mul(al, a.dPhi) + Mul(be, o.dPhi),
                      Mul(al, a.k) + Mul(be, o.k),
                      Atan2(sin_t, cos_t) % TAU,
                      Mul(al, a.N) + Mul(be, o.N),
                      Max2(a.C, o.C),
                      a.t + 1))

\* Psi.blend
Blend(a, o, al) ==
  LET be == S - al
      sin_t == Mul(al, Sin(a.th)) + Mul(be, Sin(o.th))
      cos_t == Mul(al, Cos(a.th)) + Mul(be, Cos(o.th))
  IN PsiEnforce(MkPsi(Mul(al, a.dPhi) + Mul(be, o.dPhi),
                      Mul(al, a.k) + Mul(be, o.k),
                      Atan2(sin_t, cos_t) % TAU,
                      Mul(al, a.N) + Mul(be, o.N),
                      Max2(a.C, o.C),
                      Max2(a.t, o.t) + 1))

\* Psi.copy
Copy(p) == MkPsi(p.dPhi, p.k, p.th, p.N, p.C, p.t)

\* the four bounds of a field state
InBounds(p) ==
  /\ K_MIN <= p.k /\ p.k <= K_MAX
  /\ 0 <= p.th /\ p.th < TAU
  /\ 0 <= p.C /\ p.C <= S
  /\ p.N > 0

\* None, where the source holds an optional state
NoPsi == [none |-> TRUE]
IsPsi(p) == "k" \in DOMAIN p

\* ------------------------------------------------------------------------
\* Sums and sequences
\* ------------------------------------------------------------------------
RECURSIVE SumTo(_, _)
SumTo(s, n) == IF n = 0 THEN 0 ELSE s[n] + SumTo(s, n - 1)
SumSeq(s) == SumTo(s, Len(s))

RECURSIVE MaxTo(_, _)
MaxTo(s, n) == IF n = 1 THEN s[1] ELSE Max2(s[n], MaxTo(s, n - 1))
MaxSeq(s) == MaxTo(s, Len(s))

Last(s) == s[Len(s)]

\* a list append, which never evicts
PushUnbounded(s, x, cap) == Append(s, x)

\* deque(maxlen = cap).append
Push(s, x, cap) == IF Len(s) >= cap THEN Append(Tail(s), x) ELSE Append(s, x)

\* the weights exp(x_i) / sum_j exp(x_j) with x_i = 1 / max(k_i, eps); the
\* common factor exp(-max x) is cancelled, as exp(100) exceeds the integers
Softmax(ks) ==
  LET inv == [i \in 1..Len(ks) |-> Div(S, Max2(ks[i], EPS))]
      m == MaxSeq(inv)
      ex == [i \in 1..Len(ks) |-> Exp(inv[i] - m)]
      total == SumSeq(ex)
  IN [i \in 1..Len(ks) |-> Div(ex[i], total)]

\* ------------------------------------------------------------------------
\* §7 ENCODER.  A string is a sequence of code points.
\* ------------------------------------------------------------------------
ZWJ == 8205
RI_LO == 127462
RI_HI == 127487
CJK_REF == 19968
CP_MAX == 1114111

\* str.isspace on one character
IsSpace(c) == c \in {9, 10, 11, 12, 13, 28, 29, 30, 31, 32, 133, 160, 5760, 8232, 8233, 8239, 8287, 12288}
                \/ (8192 <= c /\ c <= 8202)

\* unicodedata.category, on the code points the model draws its strings from
Category(c) ==
  CASE c < 32 -> "Cc"
    [] c = 32 -> "Zs"
    [] c \in {33, 34, 35, 37, 38, 39, 42, 44, 46, 47, 58, 59, 63, 64} -> "Po"
    [] c = 40 -> "Ps"
    [] c = 41 -> "Pe"
    [] c \in {43, 60, 61, 62} -> "Sm"
    [] c = 45 -> "Pd"
    [] 48 <= c /\ c <= 57 -> "Nd"
    [] 65 <= c /\ c <= 90 -> "Lu"
    [] 97 <= c /\ c <= 122 -> "Ll"
    [] 768 <= c /\ c <= 879 -> "Mn"
    [] 1569 <= c /\ c <= 1610 -> "Lo"
    [] c = ZWJ -> "Cf"
    [] 19968 <= c /\ c <= 40959 -> "Lo"
    [] 126976 <= c /\ c <= 131069 -> "So"
    [] OTHER -> "Cn"

IsRI(c) == RI_LO <= c /\ c <= RI_HI

\* Encoder._k_MAP.get(cat, 0.3)
KappaMap(cat) ==
  CASE cat = "L" -> 300
    [] cat = "M" -> 100
    [] cat = "N" -> 400
    [] cat = "P" -> 500
    [] cat = "S" -> 600
    [] cat = "Z" -> 50
    [] cat = "C" -> 20
    [] OTHER -> 300

\* first letter of a category name
Major(cat) ==
  CASE cat \in {"Lu", "Ll", "Lo"} -> "L"
    [] cat \in {"Mn", "Mc", "Me"} -> "M"
    [] cat \in {"Nd"} -> "N"
    [] cat \in {"Po", "Ps", "Pe", "Pd"} -> "P"
    [] cat \in {"Sm", "So"} -> "S"
    [] cat \in {"Zs"} -> "Z"
    [] OTHER -> "C"

\* an inner loop that knows no joiner
NoJoiner(nc) == FALSE

\* nc == cls._ZWJ
IsJoiner(nc) == nc = ZWJ

\* Encoder.graphemes: GrOuter is the outer while loop with current = [],
\* GrInner the inner while loop that extends the cluster cur
RECURSIVE GrOuter(_, _, _)
RECURSIVE GrInner(_, _, _, _)
GrOuter(chars, i, clusters) ==
  IF i > Len(chars) THEN clusters
  ELSE IF IsSpace(chars[i]) THEN GrOuter(chars, i + 1, clusters)
  ELSE GrInner(chars, i + 1, <<chars[i]>>, clusters)

GrInner(chars, i, cur, clusters) ==
  IF i > Len(chars) THEN GrOuter(chars, i, Append(clusters, cur))
  ELSE LET nc == chars[i] IN
    IF IsJoiner(nc)
    THEN IF i + 1 <= Len(chars)
         THEN GrInner(chars, i + 2, cur \o <<nc, chars[i + 1]>>, clusters)
         ELSE GrInner(chars, i + 1, Append(cur, nc), clusters)
    ELSE IF IsRI(cur[1]) /\ IsRI(nc) /\ Len(cur) = 1
    THEN GrOuter(chars, i + 1, Append(clusters, Append(cur, nc)))
    ELSE IF Category(nc) \in {"Mn", "Mc", "Me"}
    THEN GrInner(chars, i + 1, Append(cur, nc), clusters)
    ELSE GrOuter(chars, i, Append(clusters, cur))

Graphemes(text) == IF text = <<>> THEN <<>> ELSE GrOuter(text, 1, <<>>)

\* the per-cluster terms of Encoder.text, for cluster g at 0-based index i of n
GlyphTheta(g, i, n) ==
  ((g[1] \div 256) * PHI + ((g[1] % 256) * TAU) \div 256 + (i * TAU) \div (2 * n)) % TAU
GlyphKappa(g) == Mul(KappaMap(Major(Category(g[1]))), S + 150 * Len(g))
GlyphTension(g) == (Abs(g[1] - CJK_REF) * S) \div CP_MAX
GlyphEnergy(g) == Mul(Div(Log((1 + SumSeq(g)) * S), Log((CP_MAX + 1) * S)), S + 250 * Len(g))

\* Encoder.text
EncText(text) ==
  LET glyphs == Graphemes(text)
      n == Len(glyphs)
      sin_s == SumSeq([i \in 1..n |-> Sin(GlyphTheta(glyphs[i], i - 1, n))])
      cos_s == SumSeq([i \in 1..n |-> Cos(GlyphTheta(glyphs[i], i - 1, n))])
  IN IF n = 0 THEN PsiDefault
     ELSE MkPsi(SumSeq([i \in 1..n |-> GlyphTension(glyphs[i])]) \div n,
                SumSeq([i \in 1..n |-> GlyphKappa(glyphs[i])]) \div n,
                Atan2(sin_s, cos_s) % TAU,
                SumSeq([i \in 1..n |-> GlyphEnergy(glyphs[i])]),
                Hypot(sin_s, cos_s) \div n,
                0)

\* str.count(pat): the number of non-overlapping occurrences from the left
RECURSIVE CountFrom(_, _, _)
CountFrom(s, pat, i) ==
  IF i + Len(pat) - 1 > Len(s) THEN 0
  ELSE IF SubSeq(s, i, i + Len(pat) - 1) = pat
       THEN 1 + CountFrom(s, pat, i + Len(pat))
       ELSE CountFrom(s, pat, i + 1)
Count(s, pat) == CountFrom(s, pat, 1)

KW_if == <<105, 102, 32>>
KW_elif == <<101, 108, 105, 102, 32>>
KW_else == <<101, 108, 115, 101, 58>>
KW_for == <<102, 111, 114, 32>>
KW_while == <<119, 104, 105, 108, 101, 32>>
KW_def == <<100, 101, 102, 32>>
KW_class == <<99, 108, 97, 115, 115, 32>>
KW_import == <<105, 109, 112, 111, 114, 116, 32>>

\* Encoder.code
EncCode(code) ==
  LET p == EncText(code)
      branches == Count(code, KW_if) + Count(code, KW_elif) + Count(code, KW_else)
      loops == Count(code, KW_for) + Count(code, KW_while)
      defs == Count(code, KW_def) + Count(code, KW_class)
      imports == Count(code, KW_import)
      complexity == S + 100 * (branches + loops + defs)
  IN PsiEnforce([p EXCEPT !.k = Min2(K_MAX, Mul(p.k, complexity)),
                          !.dPhi = p.dPhi + 50 * imports,
                          !.C = Max2(100, Div(p.C, complexity))])

\* ------------------------------------------------------------------------
\* §2 AWARENESS FIELD
\* ------------------------------------------------------------------------
AW_CAP == 20

\* AwarenessField.__init__
AwInit ==
  [field |-> MkPsi(50, 200, 0, 100, 100, 0),
   bC |-> <<>>, bk |-> <<>>, bdiv |-> <<>>, balign |-> <<>>]

\* the trend of a buffer: (last - first) / n once it holds 3 entries.  It is
\* kept as its numerator d, and a comparison trend >= c is made as d >= c * n.
Trend(buf) == IF Len(buf) >= 3 THEN Last(buf) - buf[1] ELSE 0

\* AwarenessField.evolve, the end: the awareness object with its field f3
\* and buffers, and the phase-stabilized copy of psi
AwReturn(psi, M, f3, bC, bk, bdiv, balign) ==
  [aw |-> [field |-> f3, bC |-> bC, bk |-> bk, bdiv |-> bdiv, balign |-> balign],
   out |-> IF f3.C > 300
           THEN [Copy(psi) EXCEPT
                   !.th = (psi.th + Mul(Mul(100, f3.C), Sin(M.th - psi.th))) % TAU]
           ELSE Copy(psi)]

\* AwarenessField.evolve, the field update on the appended buffers
AwUpdate(f0, psi, M, W, bC, bk, bdiv, balign) ==
  LET n == Len(bC)
      drift == Trend(bdiv) > 10 * n
      stability == (IF Trend(bC) >= 0 THEN 1 ELSE 0) + (IF Trend(bk) <= 0 THEN 1 ELSE 0)
                   + (IF Trend(bdiv) <= 0 THEN 1 ELSE 0)
      d0 == psi.th - f0.th
      dth == IF Abs(d0) > PI THEN (IF d0 > 0 THEN d0 - TAU ELSE d0 + TAU) ELSE d0
      met == (IF Trend(bC) >= -10 * n THEN 1 ELSE 0) + (IF Trend(bk) <= 10 * n THEN 1 ELSE 0)
             + (IF Trend(bdiv) <= 10 * n THEN 1 ELSE 0)
             + (IF Trend(balign) >= -10 * n THEN 1 ELSE 0)
      f1 == [dPhi |-> Max2(-S, Min2(S, Mul(900, f0.dPhi)
                                       + Mul(100, IF drift THEN 500 ELSE -200))),
             k |-> Mul(f0.k, IF stability >= 2 THEN 950 ELSE 1020),
             th |-> (f0.th + Mul(300, dth)) % TAU,
             N |-> IF met >= 3 THEN Min2(S, Mul(f0.N, 1020) + 10)
                   ELSE IF met <= 1 THEN Max2(10, Mul(f0.N, 980)) ELSE f0.N,
             C |-> IF met >= 3 THEN Min2(S, f0.C + 15)
                   ELSE IF met <= 1 THEN Max2(10, f0.C - 5) ELSE f0.C,
             t |-> f0.t]
  IN AwReturn(psi, M, PsiEnforce(IF IsPsi(W) THEN Blend(f1, W, 900) ELSE f1),
              bC, bk, bdiv, balign)

\* AwarenessField.evolve: the new awareness object and the returned state
AwEvolve(aw, psi, M, W) ==
  AwUpdate(aw.field, psi, M, W,
           Push(aw.bC, psi.C, AW_CAP), Push(aw.bk, psi.k, AW_CAP),
           Push(aw.bdiv, Dist(psi, M), AW_CAP), Push(aw.balign, Inner(psi, M), AW_CAP))

\* a scale whose first level ends at 0.4
LevelOfWide(c) ==
  IF c < 400 THEN "dormant"
  ELSE IF c < 600 THEN "aware"
  ELSE IF c < 800 THEN "conscious"
  ELSE "fully_conscious"

\* AwarenessField.level, on the coherence c of the awareness field
LevelOf(c) ==
  IF c < 200 THEN "dormant"
  ELSE IF c < 400 THEN "emerging"
  ELSE IF c < 600 THEN "aware"
  ELSE IF c < 800 THEN "conscious"
  ELSE "fully_conscious"

AwLevel(aw) == LevelOf(aw.field.C)

\* ------------------------------------------------------------------------
\* §3 MEMORY FIELD
\* ------------------------------------------------------------------------
HIST_CAP == 100
CYCLE_N == 10

\* MemoryField.__init__
MemInit ==
  [M |-> MkPsi(0, 500, 0, 500, 500, 0), hist |-> <<>>, floor |-> 0, lc |-> NoPsi]

\* MemoryField._detect_limit_cycle: the new value of _limit_cycle
DetectLimitCycle(hist, lc) ==
  IF Len(hist) < CYCLE_N THEN lc
  ELSE LET recent == SubSeq(hist, Len(hist) - CYCLE_N + 1, Len(hist))
           stable == \A i \in 1..(CYCLE_N - 1) : Abs(recent[i + 1].th - recent[i].th) < 300
           sin_s == SumSeq([i \in 1..CYCLE_N |-> Sin(recent[i].th)])
           cos_s == SumSeq([i \in 1..CYCLE_N |-> Cos(recent[i].th)])
       IN IF stable
          THEN MkPsi(SumSeq([i \in 1..CYCLE_N |-> recent[i].dPhi]) \div CYCLE_N,
                     SumSeq([i \in 1..CYCLE_N |-> recent[i].k]) \div CYCLE_N,
                     Atan2(sin_s, cos_s) % TAU,
                     SumSeq([i \in 1..CYCLE_N |-> recent[i].N]) \div CYCLE_N,
                     MaxSeq([i \in 1..CYCLE_N |-> recent[i].C]),
                     0)
          ELSE lc

\* the coherence rule of release 10.0 (MemoryField.absorb there has no floor
\* at 0.99 of the previous value)
MemCoherenceV10(r, floor, C) == Max2(r, floor)

\* the coherence rule of MemoryField.absorb: max(r, _C_floor, M.C * 0.99)
MemCoherence(r, floor, C) == Max3(r, floor, Mul(C, 990))

\* MemoryField.absorb, the blend of the persistent field M0 with psi
AbsorbBlend(M0, psi, weight) ==
  [M0 EXCEPT !.dPhi = Mul(S - weight, M0.dPhi) + Mul(Mul(weight, psi.dPhi), 900),
             !.k = Mul(S - weight, M0.k) + Mul(Mul(weight, psi.k), 950),
             !.th = Atan2(Mul(S - weight, Sin(M0.th)) + Mul(weight, Sin(psi.th)),
                          Mul(S - weight, Cos(M0.th)) + Mul(weight, Cos(psi.th))) % TAU,
             !.N = Mul(S - weight, M0.N) + Mul(weight, psi.N)]

\* a resultant that is the mean of the sines alone
ResultantSine(hist) ==
  Abs(SumSeq([i \in 1..Len(hist) |-> Sin(hist[i].th)])) \div Len(hist)

\* the mean resultant length of the phases in the history
Resultant(hist) ==
  Hypot(SumSeq([i \in 1..Len(hist) |-> Sin(hist[i].th)]),
        SumSeq([i \in 1..Len(hist) |-> Cos(hist[i].th)])) \div Len(hist)

\* MemoryField.absorb, the coherence update on the history hist with its
\* resultant r, and the limit cycle detection
AbsorbCohere(mem, M1, hist, r) ==
  LET floor == IF Len(hist) >= 3 THEN Max2(mem.floor - 1, r - 50) ELSE mem.floor
      M2 == IF Len(hist) >= 3 THEN [M1 EXCEPT !.C = MemCoherence(r, floor, M1.C)] ELSE M1
  IN [M |-> PsiEnforce(M2), hist |-> hist, floor |-> floor,
      lc |-> DetectLimitCycle(hist, mem.lc)]

\* MemoryField.absorb, from the append to the history on
AbsorbRecord(mem, M1, hist) == AbsorbCohere(mem, M1, hist, Resultant(hist))

\* MemoryField.absorb, from the blended field M1 on
AbsorbInto(mem, M1) == AbsorbRecord(mem, M1, Push(mem.hist, Copy(M1), HIST_CAP))

\* MemoryField.absorb
MemAbsorb(mem, psi, rate) ==
  AbsorbInto(mem, AbsorbBlend(mem.M, psi, Mul(Tanh(2 * psi.C), rate)))

\* MemoryField.fuse: absorb the sources in order, at rate 0.3 * weight
RECURSIVE FuseFrom(_, _, _, _)
FuseFrom(mem, sources, w, i) ==
  IF i > Len(sources) THEN mem
  ELSE FuseFrom(MemAbsorb(mem, sources[i], Mul(w[i], 300)), sources, w, i + 1)

MemFuse(mem, sources) ==
  IF sources = <<>> THEN mem
  ELSE FuseFrom(mem, sources, Softmax([i \in 1..Len(sources) |-> sources[i].k]), 1)

\* the object attractor() hands out: both branches return .copy(), a new
\* object, never the memory's own M_inf or _limit_cycle
AttractorRef(mem) == "fresh"

\* the attractor of release 10.0, which has no limit cycle
MemAttractorV10(mem) == Copy(mem.M)

\* MemoryField.attractor
MemAttractor(mem) ==
  IF IsPsi(mem.lc) /\ mem.lc.C > mem.M.C THEN Copy(mem.lc) ELSE Copy(mem.M)

\* ------------------------------------------------------------------------
\* §4 UNIFIED TENSOR KERNEL
\* ------------------------------------------------------------------------

\* the step counter a kernel application gives its result
KernelStepStuck(t) == t
KernelStep(t) == t + 1

\* the coherence a kernel application gives its result
KernelCoherenceFromTarget(psi, target) == target.C
KernelCoherence(psi, target) == psi.C

\* a kernel that blends the memory into the attractor object in place
KernelBlendsInPlace(psi, A, M, W) ==
  [psi |-> IF psi = A THEN Blend(A, M, 600) ELSE psi, A |-> Blend(A, M, 600),
   M |-> IF M = A THEN Blend(A, M, 600) ELSE M, W |-> W]

\* the argument objects after UnifiedTensorKernel.__call__: the body reads
\* them and binds new objects (blend and the constructor return new states),
\* it assigns to no attribute of an argument
KernelLeaves(psi, A, M, W) == [psi |-> psi, A |-> A, M |-> M, W |-> W]

\* UnifiedTensorKernel.__call__, with al the damping rate self.p['alpha']
Kernel(psi, A, M, W, grad_C, al) ==
  LET t0 == Blend(A, M, 600)
      target == IF IsPsi(W) THEN Blend(t0, W, 850) ELSE t0
      k1 == psi.k - Mul(al, psi.k - target.k)
      N1 == psi.N + Mul(BETA, psi.C)
      d1 == IF psi.C > 600 THEN Mul(psi.dPhi, S - Mul(GAMMA, Mul(psi.C, psi.C))) ELSE psi.dPhi
      d2 == d1 + Mul(ETA, M.dPhi - d1)
      k2 == k1 + Mul(ETA, M.k - k1)
      N2 == N1 + Mul(ETA, M.N - N1)
      dt0 == target.th - psi.th
      dth == IF dt0 > PI THEN dt0 - TAU ELSE IF dt0 < -PI THEN dt0 + TAU ELSE dt0
      shift == Max2(-PHASE_MAX, Min2(PHASE_MAX, Mul(KCOUP, Sin(dth))))
      th == (psi.th + shift) % TAU
      k3 == k2 - Mul(grad_C, 150)
      d3 == d2 - Mul(grad_C, 80)
      merge == Mul(100, target.C)
      d4 == Mul(S - merge, d3) + Mul(merge, target.dPhi)
      k4 == Mul(S - merge, k3) + Mul(merge, target.k)
  IN PsiEnforce(MkPsi(d4, Max2(K_MIN, Min2(K_MAX, k4)), th, Max2(EPS, N2),
                      KernelCoherence(psi, target), KernelStep(psi.t)))

\* ------------------------------------------------------------------------
\* §5 COHERENCE FORCE
\* ------------------------------------------------------------------------
C_PREV0 == 500

\* CoherenceForce.compute on the (C, k) pairs cs: the gradient and the
\* fused coherence, which becomes _C_prev
ForceCompute(C_prev, cs) ==
  IF cs = <<>> THEN [grad |-> 0, fused |-> C_prev]
  ELSE LET w == Softmax([i \in 1..Len(cs) |-> cs[i][2]])
           fused == SumSeq([i \in 1..Len(cs) |-> Mul(w[i], cs[i][1])])
       IN [grad |-> fused - C_prev, fused |-> fused]

\* ------------------------------------------------------------------------
\* §6 WORLD CURVATURE.  sources is a function from source ids to states.
\* ------------------------------------------------------------------------
RECURSIVE SumOver(_, _)
SumOver(f, D) ==
  IF D = {} THEN 0
  ELSE LET x == CHOOSE y \in D : TRUE IN f[x] + SumOver(f, D \ {x})

\* WorldCurvature._update: the aggregate field, None without sources
WorldField(sources) ==
  LET D == DOMAIN sources
      n == Cardinality(D)
      sin_s == SumOver([x \in D |-> Sin(sources[x].th)], D)
      cos_s == SumOver([x \in D |-> Cos(sources[x].th)], D)
  IN IF D = {} THEN NoPsi
     ELSE MkPsi(SumOver([x \in D |-> sources[x].dPhi], D) \div n,
                SumOver([x \in D |-> sources[x].k], D) \div n,
                Atan2(sin_s, cos_s) % TAU,
                SumOver([x \in D |-> sources[x].N], D),
                Hypot(sin_s, cos_s) \div n,
                0)

\* an add that keeps the entry a source id already has
WorldAddFirst(sources, sid, psi) ==
  [x \in DOMAIN sources \cup {sid} |-> IF x \in DOMAIN sources THEN sources[x] ELSE psi]

\* WorldCurvature.add
WorldAdd(sources, sid, psi) ==
  [x \in DOMAIN sources \cup {sid} |-> IF x = sid THEN psi ELSE sources[x]]

\* ------------------------------------------------------------------------
\* §8 MULTIMODAL PROJECTOR
\* ------------------------------------------------------------------------

\* MultimodalProjector.project
Project(fields) ==
  IF fields = <<>> THEN PsiDefault
  ELSE IF Len(fields) = 1 THEN Copy(fields[1])
  ELSE LET n == Len(fields)
           w == Softmax([i \in 1..n |-> fields[i].k])
           sin_s == SumSeq([i \in 1..n |-> Mul(w[i], Sin(fields[i].th))])
           cos_s == SumSeq([i \in 1..n |-> Mul(w[i], Cos(fields[i].th))])
       IN MkPsi(SumSeq([i \in 1..n |-> Mul(w[i], fields[i].dPhi)]),
                Exp(SumSeq([i \in 1..n |-> Mul(w[i], Log(fields[i].k + EPS))])),
                Atan2(sin_s, cos_s) % TAU,
                SumSeq([i \in 1..n |-> Mul(w[i], fields[i].N)]),
                Hypot(sin_s, cos_s),
                0)

\* ------------------------------------------------------------------------
\* §9 INVARIANT GUARDIAN.  _L_prev is [inf |-> TRUE] for float('inf').
\* ------------------------------------------------------------------------

\* InvariantGuardian.__init__ and reset
GuardInit == [floor |-> 0, Lprev |-> [inf |-> TRUE, v |-> 0]]

\* a reset that leaves the guardian as it is
GuardKeep(g) == g

\* InvariantGuardian.reset
GuardReset(g) == GuardInit

\* a comparison against a remembered loss that starts at 0, not at infinity
LossWorseFromZero(L, Lprev) == L > Mul(Lprev.v, 1300)

\* L > self._L_prev * 1.3
LossWorse(L, Lprev) == ~Lprev.inf /\ L > Mul(Lprev.v, 1300)

\* INV-3 without the rescaling
EnergyBandOff(Nb, Na) == Na

\* INV-3 of InvariantGuardian.enforce: the energy of the result, given the
\* energy Nb of the before-state and Na of the after-state
EnergyBand(Nb, Na) ==
  IF Nb > EPS
  THEN LET ratio == Div(Na, Nb)
       IN IF Abs(ratio - S) > ENERGY_D
          THEN Mul(Nb, S + ENERGY_D * (IF ratio > S THEN 1 ELSE -1))
          ELSE Na
  ELSE Na

\* the wrapped (shortest-arc) difference of two phases in [0, TAU)
PhaseGap(thb, tha) ==
  IF Abs(tha - thb) > PI THEN TAU - Abs(tha - thb) ELSE Abs(tha - thb)

\* INV-4 without the clipping
PhaseClipOff(thb, tha) == tha

\* INV-4 of InvariantGuardian.enforce: the phase of the result
PhaseClip(thb, tha) ==
  LET d0 == Abs(tha - thb)
      d == IF d0 > PI THEN TAU - d0 ELSE d0
      direction == IF tha > thb THEN 1 ELSE -1
  IN IF d > PHASE_MAX THEN (thb + direction * PHASE_MAX) % TAU ELSE tha

\* a floor that forgets its earlier value
CoherenceFloorReset(floor, Cb) == Max2(0, Cb - 100)

\* INV-1 of InvariantGuardian.enforce: the new value of _C_floor, given the
\* coherence Cb of the before-state
CoherenceFloor(floor, Cb) == Max3(0, floor - 2, Cb - 100)

\* InvariantGuardian.enforce: the new guardian and the returned state
GuardEnforce(g, before, after, L) ==
  LET r0 == Copy(after)
      floor == CoherenceFloor(g.floor, before.C)
      r1 == [r0 EXCEPT !.C = Max2(r0.C, floor),
                       !.k = Max2(K_MIN, Min2(K_MAX, r0.k)),
                       !.N = EnergyBand(before.N, r0.N),
                       !.th = PhaseClip(before.th, r0.th)]
      r2 == IF LossWorse(L, g.Lprev) THEN Blend(before, r1, 700) ELSE r1
  IN [g |-> [floor |-> floor, Lprev |-> [inf |-> FALSE, v |-> L]],
      out |-> PsiEnforce(r2)]

\* ------------------------------------------------------------------------
\* §10 MA'AT FUNCTIONAL and §11 GOVERNOR
\* ------------------------------------------------------------------------

\* MaatFunctional.__call__
Maat(psi, M, laplacian) == Dist(psi, M) + Mul(LAM, Abs(laplacian))

THRESHOLD == 750

\* a governor that never asks for a rebuild
DecideAllow(score) == "allow"

\* the decision of MaatGovernor.judge on its score
Decide(score) == IF score < THRESHOLD THEN "rebuild" ELSE "allow"

\* MaatGovernor.judge: the decision and the score
Judge(psi_in, psi_out, W) ==
  LET s1 == <<500 + (psi_out.C - psi_in.C)>>
      s2 == IF psi_in.k > EPS
            THEN Append(s1, S - Min2(Div(psi_out.k, psi_in.k), S)) ELSE s1
      s3 == IF IsPsi(W) THEN Append(s2, (Inner(psi_out, W) + S) \div 2) ELSE s2
      score == SumSeq(s3) \div Len(s3)
  IN [decision |-> Decide(score), score |-> score]

\* ------------------------------------------------------------------------
\* §13 ENGINE.  Two engine instances run process calls, one call at a time
\* and one loop iteration per step.  Engine 1 is given any call; engine 2 is
\* given the calls of engine 1 in the same order, at any later time.
\* ------------------------------------------------------------------------
VARIABLES
  alpha,     \* KERNEL['alpha'], the dictionary entry every kernel reads
  eng,       \* eng[e]: the objects the engine instance e owns
  frame,     \* frame[e]: the local variables of the process call running on e
  script,    \* the process calls given so far, as their arguments
  results,   \* results[e]: what each finished call of e returned or raised
  bench,     \* the last call of a component operation made outside an engine
  v10        \* the release 10.0 engine: its objects, running call and results

vars == <<alpha, eng, frame, script, results, bench, v10>>

ENGINES == {1, 2}
REBUILD_N == 10
CONVERGED == 950
ABSORB_RATE == 200

\* bounds of the model
MaxCalls == 2
MaxSteps == 3

\* the strings the calls are made with
TextHi == <<72, 105, 32, 97, 33>>
CodeDef == <<100, 101, 102, 32, 102, 40, 41, 58, 32, 105, 102, 32, 120>>
WorldCtx == <<99, 116, 120>>
NoWorld == [x \in {} |-> <<>>]

Call(text, code, world, max_steps) ==
  [text |-> text, code |-> code, world |-> world, max_steps |-> max_steps]

\* the calls an engine is given: with and without text, with and without the
\* optional arguments, with and without evolve iterations
Inputs ==
  {Call(TextHi, <<>>, NoWorld, 0),
   Call(TextHi, <<>>, NoWorld, MaxSteps),
   Call(<<>>, <<>>, NoWorld, 0),
   Call(<<>>, <<>>, NoWorld, MaxSteps),
   Call(TextHi, CodeDef, [ctx |-> WorldCtx], MaxSteps)}

\* hashlib.sha256(str(vec)).hexdigest()[:8], abstracted to a 32-bit digest of
\* the five components, as two 16-bit halves
RECURSIVE Digest(_, _, _, _)
Digest(v, i, h, m) ==
  IF i > Len(v) THEN h ELSE Digest(v, i + 1, (h * 31 + (v[i] % m)) % m, m)
Sig(v) == <<Digest(v, 1, 7, 65521), Digest(v, 1, 11, 65536)>>

\* ASCPI.__init__; the session id of the logger is taken from the clock
EngInit(session) ==
  [mem |-> MemInit, aw |-> AwInit, C_prev |-> C_PREV0,
   world |-> [x \in {} |-> NoPsi], guard |-> GuardInit, gov |-> 500,
   n_calls |-> 0, log_count |-> 0, session |-> session,
   step |-> 0, current |-> NoPsi]

Idle == [pc |-> "idle"]

\* add every (sid, text) pair of the world argument to the world sources
RECURSIVE WorldAddAll(_, _, _)
WorldAddAll(sources, world, D) ==
  IF D = {} THEN sources
  ELSE LET sid == CHOOSE x \in D : TRUE
       IN WorldAddAll(WorldAdd(sources, sid, EncText(world[sid])), world, D \ {sid})

\* the coherences dictionary of an evolve iteration, as (C, k) pairs
Coherences(lang, mem, aw, code, W) ==
  <<<<lang.C, lang.k>>, <<mem.M.C, mem.M.k>>, <<aw.field.C, aw.field.k>>>>
  \o (IF IsPsi(code) THEN <<<<code.C, code.k>>>> ELSE <<>>)
  \o (IF IsPsi(W) THEN <<<<W.C, W.k>>>> ELSE <<>>)

\* process, from its first line to the head of the evolve loop
Enter(e, inp) ==
  /\ frame[e].pc = "idle"
  /\ IF e = 1
     THEN script' = Append(script, inp)
     ELSE /\ Len(results[e]) < Len(script)
          /\ inp = script[Len(results[e]) + 1]
          /\ UNCHANGED script
  /\ LET E == eng[e]
         lang == EncText(inp.text)
         code == IF inp.code # <<>> THEN EncCode(inp.code) ELSE NoPsi
         sources == WorldAddAll(E.world, inp.world, DOMAIN inp.world)
         W == WorldField(sources)
         fields == <<lang, MemAttractor(E.mem), E.aw.field>>
                   \o (IF IsPsi(code) THEN <<code>> ELSE <<>>)
                   \o (IF IsPsi(W) THEN <<W>> ELSE <<>>)
     IN /\ eng' = [eng EXCEPT ![e] = [E EXCEPT !.step = E.step + 1,
                                               !.guard = GuardReset(E.guard),
                                               !.world = sources]]
        /\ frame' = [frame EXCEPT ![e] =
             [pc |-> "evolve", inp |-> inp, lang |-> lang, code |-> code, W |-> W,
              cur |-> Project(fields), i |-> 0, brk |-> FALSE, traj |-> <<>>,
              bound |-> FALSE, coh |-> <<>>, attractor |-> NoPsi, before |-> NoPsi,
              decision |-> "", score |-> 0, judged |-> NoPsi, old_al |-> 0, j |-> 0,
              kcalls |-> 0, grad |-> 0,
              al_in |-> alpha]]
  /\ UNCHANGED <<alpha, results, bench, v10>>

\* a call of process made while no other call is running
Start(e, inp) ==
  /\ \A f \in ENGINES : frame[f].pc = "idle"
  /\ Len(results[e]) < MaxCalls
  /\ Enter(e, inp)

\* a loop body that leaves the coherence the kernel returned
KeepCoherence(c1, M) == c1

\* current.C = self.memory.M_inf.C
UpdateCoherence(c1, M) == [c1 EXCEPT !.C = M.C]

\* one iteration of the evolve loop, with its convergence test.  Each value
\* the body assigns is bound in turn: coherences, (grad_C, C_fused),
\* attractor, the kernel's result, the memory after absorb and after fuse,
\* the awareness result, the guardian's result.
EvolveIter(e) ==
  LET F == frame[e]
      E == eng[e]
  IN /\ F.pc = "evolve"
     /\ F.i < F.inp.max_steps
     /\ ~F.brk
     /\ \E coh \in {Coherences(F.lang, E.mem, E.aw, F.code, F.W)} :
        \E fc \in {ForceCompute(E.C_prev, coh)} :
        \E attractor \in {MemAttractor(E.mem)} :
        \E c1 \in {Kernel(F.cur, attractor, E.mem.M, F.W, fc.grad, alpha)} :
        \E mem1 \in {MemAbsorb(E.mem, c1, ABSORB_RATE)} :
        \E mem2 \in {MemFuse(mem1, <<F.lang>> \o (IF IsPsi(F.code) THEN <<F.code>> ELSE <<>>))} :
        \E ae \in {AwEvolve(E.aw, UpdateCoherence(c1, mem2.M), mem2.M, F.W)} :
        \E ge \in {GuardEnforce(E.guard, Copy(F.cur), ae.out, Maat(ae.out, mem2.M, 0))} :
           /\ eng' = [eng EXCEPT ![e] = [E EXCEPT !.mem = mem2, !.aw = ae.aw,
                                                  !.C_prev = fc.fused,
                                                  !.guard = ge.g,
                                                  !.n_calls = E.n_calls + 1,
                                                  !.log_count = E.log_count + 1]]
           /\ frame' = [frame EXCEPT ![e] = [F EXCEPT !.cur = ge.out,
                                                      !.before = Copy(F.cur),
                                                      !.i = F.i + 1,
                                                      !.brk = ge.out.C > CONVERGED,
                                                      !.traj = Append(F.traj, ge.out.C),
                                                      !.bound = TRUE,
                                                      !.coh = coh,
                                                      !.attractor = attractor,
                                                      !.grad = fc.grad,
                                                      !.kcalls = F.kcalls + 1]]
     /\ UNCHANGED <<alpha, script, results, bench, v10>>

\* the governor's judgment after the evolve loop; on REBUILD the damping
\* rate is saved and multiplied by 1.5
Govern(e) ==
  LET F == frame[e]
      E == eng[e]
      jd == Judge(F.lang, F.cur, F.W)
  IN /\ F.pc = "evolve"
     /\ (F.i >= F.inp.max_steps \/ F.brk)
     /\ eng' = [eng EXCEPT ![e] = [E EXCEPT !.gov = jd.score]]
     /\ IF jd.decision = "rebuild"
        THEN /\ frame' = [frame EXCEPT ![e] = [F EXCEPT !.pc = "rebuild",
                                                        !.decision = jd.decision,
                                                        !.score = jd.score,
                                                        !.judged = F.cur,
                                                        !.old_al = alpha, !.j = 0]]
             /\ alpha' = Mul(alpha, 1500)
        ELSE /\ frame' = [frame EXCEPT ![e] = [F EXCEPT !.pc = "return",
                                                        !.decision = jd.decision,
                                                        !.score = jd.score,
                                                        !.judged = F.cur]]
             /\ UNCHANGED alpha
     /\ UNCHANGED <<script, results, bench, v10>>

\* what a call that raised leaves in results
Raised(F, exc) ==
  [kind |-> "raise", exc |-> exc, inp |-> F.inp, al_in |-> F.al_in]

\* a table built anew from the fields as they are in the rebuild iteration
RebuildTableLive(F, E) == Coherences(F.lang, E.mem, E.aw, F.code, F.W)

\* the local coherences in the rebuild loop: the dict the last evolve
\* iteration bound, holding the values read then
RebuildTable(F, E) == F.coh

\* one iteration of the rebuild loop.  It reads the locals coherences and
\* attractor of the evolve loop; when that loop never ran they are unbound
\* and the read raises UnboundLocalError out of process.
RebuildIter(e) ==
  LET F == frame[e]
      E == eng[e]
  IN /\ F.pc = "rebuild"
     /\ F.j < REBUILD_N
     /\ IF ~F.bound
        THEN /\ results' = [results EXCEPT ![e] = Append(@, Raised(F, "UnboundLocalError"))]
             /\ frame' = [frame EXCEPT ![e] = Idle]
             /\ UNCHANGED eng
        ELSE \E fc \in {ForceCompute(E.C_prev, RebuildTable(F, E))} :
             \E c1 \in {Kernel(F.cur, F.attractor, E.mem.M, F.W, fc.grad, alpha)} :
             \E mem1 \in {MemAbsorb(E.mem, c1, ABSORB_RATE)} :
             \E ae \in {AwEvolve(E.aw, UpdateCoherence(c1, mem1.M), mem1.M, F.W)} :
             \E ge \in {GuardEnforce(E.guard, Copy(F.cur), ae.out, Maat(ae.out, mem1.M, 0))} :
                /\ eng' = [eng EXCEPT ![e] = [E EXCEPT !.mem = mem1, !.aw = ae.aw,
                                                       !.C_prev = fc.fused,
                                                       !.guard = ge.g,
                                                       !.n_calls = E.n_calls + 1]]
                /\ frame' = [frame EXCEPT ![e] = [F EXCEPT !.cur = ge.out,
                                                           !.before = Copy(F.cur),
                                                           !.j = F.j + 1,
                                                           !.grad = fc.grad,
                                                           !.kcalls = F.kcalls + 1]]
                /\ UNCHANGED results
     /\ UNCHANGED <<alpha, script, bench, v10>>

\* the end of the rebuild loop: the saved damping rate is written back
Restore(e) ==
  LET F == frame[e]
  IN /\ F.pc = "rebuild"
     /\ F.j = REBUILD_N
     /\ alpha' = F.old_al
     /\ frame' = [frame EXCEPT ![e] = [F EXCEPT !.pc = "return"]]
     /\ UNCHANGED <<eng, script, results, bench, v10>>

\* the call counter of the engine, which release 10.0 reports as steps
ResultStepsV10(F, E) == E.step

\* Result.steps: len(trajectory)
ResultSteps(F, E) == Len(F.traj)

\* the Result of a call.  Kept beside it for the properties below: the call's
\* arguments, its trajectory list, the number of evolve iterations and of
\* kernel applications, the encoded text, the world field, the state the
\* governor judged, and the damping rate at entry and at return
MkResult(F, E, al) ==
  [kind |-> "result",
   output |-> F.cur, coherence |-> F.cur.C, maat |-> F.score,
   awareness |-> E.aw.field.C, awareness_level |-> AwLevel(E.aw),
   governor |-> F.decision, steps |-> ResultSteps(F, E), signature |-> Sig(Vec(F.cur)),
   inp |-> F.inp, traj |-> F.traj, iters |-> F.i, kcalls |-> F.kcalls,
   lang |-> F.lang, W |-> F.W, judged |-> F.judged,
   al_in |-> F.al_in, al_out |-> al]

\* the RESULT section of process
Return(e) ==
  LET F == frame[e]
      E == eng[e]
  IN /\ F.pc = "return"
     /\ eng' = [eng EXCEPT ![e] = [E EXCEPT !.current = F.cur]]
     /\ results' = [results EXCEPT ![e] = Append(@, MkResult(F, E, alpha))]
     /\ frame' = [frame EXCEPT ![e] = Idle]
     /\ UNCHANGED <<alpha, script, bench, v10>>

\* ------------------------------------------------------------------------
\* RELEASE 10.0.  Its Psi (enforce, blend, copy), kernel, coherence force,
\* projector and guardian compute what their release 9.0 counterparts
\* compute, with the damping rate a constant; its encoder, distance, inner
\* product, awareness, memory and Ma'at functional are its own.
\* ------------------------------------------------------------------------
AW_CAP10 == 15

\* Psi.dist of release 10.0
Dist10(a, o) ==
  LET d1 == a.dPhi - o.dPhi
      d2 == Log(a.k + EPS) - Log(o.k + EPS)
      d3 == Min2(Abs(a.th - o.th), TAU - Abs(a.th - o.th))
  IN Sqrt(Mul(d1, d1) + Mul(d2, d2) + Div(Mul(d3, d3), Mul(PI, PI)))

\* Psi.inner of release 10.0
Inner10(a, o) == Mul(Cos(a.th - o.th), Sqrt(Mul(a.N, o.N)))

\* Psi.blend of release 10.0
Blend10(a, o, al) ==
  MkPsi(Mul(al, a.dPhi) + Mul(S - al, o.dPhi),
        Mul(al, a.k) + Mul(S - al, o.k),
        Atan2(Mul(al, Sin(a.th)) + Mul(S - al, Sin(o.th)),
              Mul(al, Cos(a.th)) + Mul(S - al, Cos(o.th))) % TAU,
        Mul(al, a.N) + Mul(S - al, o.N),
        Max2(a.C, o.C),
        Max2(a.t, o.t) + 1)

\* kernel_F
kernel_F(psi, A, M, W, grad_C) == Kernel(psi, A, M, W, grad_C, ALPHA0)

\* project
project(fields) == Project(fields)

\* maat
maat(psi, M) == Dist10(psi, M) + Mul(LAM, psi.k)

\* judge
judge(psi_in, psi_out, W) ==
  LET s1 == <<500 + (psi_out.C - psi_in.C)>>
      s2 == IF psi_in.k > EPS
            THEN Append(s1, S - Min2(Div(psi_out.k, psi_in.k), S)) ELSE s1
      s3 == IF IsPsi(W) THEN Append(s2, (Inner10(psi_out, W) + S) \div 2) ELSE s2
      score == SumSeq(s3) \div Len(s3)
  IN [decision |-> IF score < 750 THEN "rebuild" ELSE "allow", score |-> score]

\* the characters of a string that are not whitespace
NonSpace(text) == SelectSeq(text, LAMBDA c : ~IsSpace(c))

\* the phase of the character cp at 0-based index i of n
CharTheta(cp, i, n) ==
  ((cp \div 256) * PHI + ((cp % 256) * TAU) \div 256 + (i * PI) \div n) % TAU

\* encode_text on the non-whitespace characters chars
EncodeChars(chars, n) ==
  LET sin_s == SumSeq([i \in 1..n |-> Sin(CharTheta(chars[i], i - 1, n))])
      cos_s == SumSeq([i \in 1..n |-> Cos(CharTheta(chars[i], i - 1, n))])
  IN MkPsi(SumSeq([i \in 1..n |-> (Abs(chars[i] - CJK_REF) * S) \div CP_MAX]) \div n,
           (300 * n) \div n,
           Atan2(sin_s, cos_s) % TAU,
           SumSeq([i \in 1..n |-> Div(Log((1 + chars[i]) * S), Log((CP_MAX + 1) * S))]),
           Hypot(sin_s, cos_s) \div n,
           0)

\* encode_text
encode_text(text) ==
  IF NonSpace(text) = <<>> THEN PsiDefault
  ELSE EncodeChars(NonSpace(text), Len(NonSpace(text)))

\* encode_code, with cx the complexity factor
EncodeCx(p, cx) ==
  PsiEnforce([p EXCEPT !.k = Min2(K_MAX, Mul(p.k, cx)), !.C = Max2(100, Div(p.C, cx))])

encode_code(code) ==
  EncodeCx(encode_text(code),
           S + 100 * (Count(code, KW_if) + Count(code, KW_for) + Count(code, KW_def)))

\* AwarenessField.__init__
AwInit10 == [field |-> MkPsi(50, 200, 0, 100, 100, 0), bC |-> <<>>, bk |-> <<>>, bd |-> <<>>]

\* how many of the three trend conditions hold; a trend (last - first) / n
\* is compared as last - first against the bound times n
Met10(bC, bk, bd, n) ==
  (IF Last(bC) - bC[1] >= -10 * n THEN 1 ELSE 0)
  + (IF Last(bk) - bk[1] <= 10 * n THEN 1 ELSE 0)
  + (IF Last(bd) - bd[1] <= 10 * n THEN 1 ELSE 0)

\* AwarenessField.evolve: the energy and coherence of the field
AwGrow10(f, n, met) ==
  IF n >= 3 /\ met >= 2
  THEN [f EXCEPT !.N = Min2(S, Mul(f.N, 1020) + 10), !.C = Min2(S, f.C + 15)]
  ELSE IF n >= 3 /\ met = 0
  THEN [f EXCEPT !.N = Max2(10, Mul(f.N, 980)), !.C = Max2(10, f.C - 5)]
  ELSE f

\* AwarenessField.evolve: the phase of the field turns towards psi by 0.3 of
\* the wrapped difference dt
AwTurn10(f, dt) ==
  PsiEnforce([f EXCEPT !.th = (f.th + Mul(300, IF Abs(dt) > PI
                                                THEN (IF dt > 0 THEN dt - TAU ELSE dt + TAU)
                                                ELSE dt)) % TAU])

\* AwarenessField.evolve, the end: the awareness object and the returned copy
AwReturn10(psi, M, f, bC, bk, bd) ==
  [aw |-> [field |-> f, bC |-> bC, bk |-> bk, bd |-> bd],
   out |-> IF f.C > 300
           THEN [Copy(psi) EXCEPT
                   !.th = (psi.th + Mul(Mul(100, f.C), Sin(M.th - psi.th))) % TAU]
           ELSE Copy(psi)]

\* AwarenessField.evolve on the appended buffers
AwUpdate10(f0, psi, M, bC, bk, bd) ==
  AwReturn10(psi, M,
             AwTurn10(AwGrow10(f0, Len(bC), IF Len(bC) >= 3 THEN Met10(bC, bk, bd, Len(bC)) ELSE 1),
                      psi.th - f0.th),
             bC, bk, bd)

\* AwarenessField.evolve
AwEvolve10(aw, psi, M) ==
  AwUpdate10(aw.field, psi, M, Push(aw.bC, psi.C, AW_CAP10), Push(aw.bk, psi.k, AW_CAP10),
             Push(aw.bd, Dist10(psi, M), AW_CAP10))

\* MemoryField.__init__
MemInit10 == [M |-> MkPsi(0, 500, 0, 500, 500, 0), hist |-> <<>>, floor |-> 0]

\* MemoryField.absorb: the coherence update, with r the resultant of hist
AbsorbCohere10(mem, M1, hist, r) ==
  IF Len(hist) >= 3
  THEN [M |-> PsiEnforce([M1 EXCEPT !.C = Max2(r, Max2(mem.floor - 1, r - 50))]),
        hist |-> hist, floor |-> Max2(mem.floor - 1, r - 50)]
  ELSE [M |-> PsiEnforce(M1), hist |-> hist, floor |-> mem.floor]

AbsorbRecord10(mem, M1, hist) == AbsorbCohere10(mem, M1, hist, Resultant(hist))

AbsorbInto10(mem, M1) == AbsorbRecord10(mem, M1, Push(mem.hist, Copy(M1), HIST_CAP))

\* MemoryField.absorb
MemAbsorb10(mem, psi, rate) ==
  AbsorbInto10(mem, AbsorbBlend(mem.M, psi, Mul(Tanh(2 * psi.C), rate)))

\* MemoryField.attractor
attractor10(mem) == Copy(mem.M)

\* ASCPI.__init__
EngInit10 ==
  [mem |-> MemInit10, aw |-> AwInit10, C_prev |-> C_PREV0, guard |-> GuardInit,
   step |-> 0, current |-> NoPsi]

Init10 == [eng |-> EngInit10, frame |-> Idle, results |-> <<>>]

\* the calls the release 10.0 engine is given
Inputs10 ==
  {Call(TextHi, <<>>, NoWorld, 0),
   Call(TextHi, <<>>, NoWorld, 1),
   Call(TextHi, <<>>, NoWorld, MaxSteps),
   Call(<<>>, <<>>, NoWorld, MaxSteps),
   Call(TextHi, CodeDef, [ctx |-> WorldCtx], MaxSteps)}

\* [encode_text(v) for v in world.values()]
RECURSIVE WorldValues10(_, _)
WorldValues10(world, D) ==
  IF D = {} THEN <<>>
  ELSE LET sid == CHOOSE x \in D : TRUE
       IN <<encode_text(world[sid])>> \o WorldValues10(world, D \ {sid})

\* the list fields of process
Fields10(lang, mem, aw, code, W) ==
  <<lang, attractor10(mem), aw.field>>
  \o (IF IsPsi(code) THEN <<code>> ELSE <<>>)
  \o (IF IsPsi(W) THEN <<W>> ELSE <<>>)

\* process, from its first line to the head of the evolve loop, given the
\* encoded text, code and world
Enter10(inp, lang, code, W) ==
  v10' = [v10 EXCEPT
    !.eng = [v10.eng EXCEPT !.step = v10.eng.step + 1, !.guard = GuardInit],
    !.frame = [pc |-> "evolve", inp |-> inp, lang |-> lang, code |-> code, W |-> W,
               cur |-> project(Fields10(lang, v10.eng.mem, v10.eng.aw, code, W)),
               i |-> 0, brk |-> FALSE, bound |-> FALSE, src |-> <<>>,
               decision |-> "", score |-> 0, j |-> 0]]

\* a call of process with the arguments inp
Process10(inp) ==
  /\ v10.frame.pc = "idle"
  /\ Enter10(inp, encode_text(inp.text),
             IF inp.code # <<>> THEN encode_code(inp.code) ELSE NoPsi,
             IF DOMAIN inp.world # {}
             THEN project(WorldValues10(inp.world, DOMAIN inp.world)) ELSE NoPsi)
  /\ UNCHANGED <<alpha, eng, frame, script, results, bench>>

\* one loop iteration of process from the kernel's result c1 on: absorb,
\* awareness, guardian
Body10(F, E, src, fused, c1) ==
  \E mem1 \in {MemAbsorb10(E.mem, c1, ABSORB_RATE)} :
  \E ae \in {AwEvolve10(E.aw, [c1 EXCEPT !.C = mem1.M.C], mem1.M)} :
  \E ge \in {GuardEnforce(E.guard, Copy(F.cur), ae.out, maat(ae.out, mem1.M))} :
    v10' = [v10 EXCEPT
      !.eng = [E EXCEPT !.mem = mem1, !.aw = ae.aw, !.C_prev = fused, !.guard = ge.g],
      !.frame = [F EXCEPT !.cur = ge.out, !.src = src, !.bound = TRUE,
                          !.i = IF F.pc = "evolve" THEN F.i + 1 ELSE F.i,
                          !.j = IF F.pc = "rebuild" THEN F.j + 1 ELSE F.j,
                          !.brk = F.pc = "evolve" /\ ge.out.C > CONVERGED]]

\* one iteration of the evolve loop, with its convergence test
Evolve10 ==
  /\ v10.frame.pc = "evolve"
  /\ v10.frame.i < v10.frame.inp.max_steps
  /\ ~v10.frame.brk
  /\ \E src \in {Coherences(v10.frame.lang, v10.eng.mem, v10.eng.aw, v10.frame.code, v10.frame.W)} :
     \E fc \in {ForceCompute(v10.eng.C_prev, src)} :
       Body10(v10.frame, v10.eng, src, fc.fused,
              kernel_F(v10.frame.cur, attractor10(v10.eng.mem), v10.eng.mem.M, v10.frame.W, fc.grad))
  /\ UNCHANGED <<alpha, eng, frame, script, results, bench>>

\* the judgment after the evolve loop
Govern10 ==
  /\ v10.frame.pc = "evolve"
  /\ (v10.frame.i >= v10.frame.inp.max_steps \/ v10.frame.brk)
  /\ \E jd \in {judge(v10.frame.lang, v10.frame.cur, v10.frame.W)} :
       v10' = [v10 EXCEPT !.frame = [v10.frame EXCEPT
                 !.pc = IF jd.decision = "rebuild" THEN "rebuild" ELSE "return",
                 !.decision = jd.decision, !.score = jd.score]]
  /\ UNCHANGED <<alpha, eng, frame, script, results, bench>>

\* one iteration of the rebuild loop.  It reads the local src of the evolve
\* loop; when that loop never ran the read raises UnboundLocalError.
Rebuild10 ==
  /\ v10.frame.pc = "rebuild"
  /\ v10.frame.j < REBUILD_N
  /\ IF ~v10.frame.bound
     THEN v10' = [v10 EXCEPT !.frame = Idle,
                             !.results = Append(@, [kind |-> "raise", exc |-> "UnboundLocalError",
                                                    inp |-> v10.frame.inp])]
     ELSE \E fc \in {ForceCompute(v10.eng.C_prev, v10.frame.src)} :
            Body10(v10.frame, v10.eng, v10.frame.src, fc.fused,
                   kernel_F(v10.frame.cur, attractor10(v10.eng.mem), v10.eng.mem.M, v10.frame.W, fc.grad))
  /\ UNCHANGED <<alpha, eng, frame, script, results, bench>>

\* Result.steps of release 10.0: self.step
Steps10(F, E) == E.step

\* the Result of a call, with the call's arguments and the number of evolve
\* iterations it ran kept beside it
MkResult10(F, E) ==
  [kind |-> "result", output |-> F.cur, coherence |-> F.cur.C, maat_score |-> F.score,
   awareness |-> E.aw.field.C, awareness_level |-> LevelOf(E.aw.field.C),
   governor |-> F.decision, steps |-> Steps10(F, E), signature |-> Sig(Vec(F.cur)),
   inp |-> F.inp, iters |-> F.i]

\* the end of process
Return10 ==
  /\ \/ v10.frame.pc = "return"
     \/ v10.frame.pc = "rebuild" /\ v10.frame.j = REBUILD_N
  /\ v10' = [v10 EXCEPT !.eng = [v10.eng EXCEPT !.current = v10.frame.cur],
                        !.frame = Idle,
                        !.results = Append(@, MkResult10(v10.frame, v10.eng))]
  /\ UNCHANGED <<alpha, eng, frame, script, results, bench>>

Next10 ==
  \/ \E inp \in Inputs10 : Len(v10.results) < MaxCalls /\ Process10(inp)
  \/ Evolve10
  \/ Govern10
  \/ Rebuild10
  \/ Return10

NoBench == [op |-> "none"]

Init ==
  /\ alpha = ALPHA0
  /\ eng = [e \in ENGINES |-> EngInit(e)]
  /\ frame = [e \in ENGINES |-> Idle]
  /\ script = <<>>
  /\ results = [e \in ENGINES |-> <<>>]
  /\ bench = NoBench
  /\ v10 = Init10

Next ==
  \/ \E e \in ENGINES, inp \in Inputs : Start(e, inp)
  \/ \E e \in ENGINES : EvolveIter(e)
  \/ \E e \in ENGINES : Govern(e)
  \/ \E e \in ENGINES : RebuildIter(e)
  \/ \E e \in ENGINES : Restore(e)
  \/ \E e \in ENGINES : Return(e)

Spec == Init /\ [][Next]_vars

\* the release 10.0 engine given process calls, one at a time
Spec10 == Init /\ [][Next10]_vars

\* --- the convergence runs of verify: one engine of each release is given
\* CONV_CALLS calls with the default max_steps, the i-th with the text
\* 'Iteration i testing convergence.' (9.0) or 'Iteration i' (10.0)
CONV_CALLS == 5
DEFAULT_STEPS == 25
TextIteration == <<73, 116, 101, 114, 97, 116, 105, 111, 110, 32>>
TextTesting ==
  <<32, 116, 101, 115, 116, 105, 110, 103, 32, 99, 111, 110, 118, 101, 114, 103,
    101, 110, 99, 101, 46>>

\* f"Iteration {i}" for i < 10
IterText(i) == Append(TextIteration, 48 + i)

Conv9 ==
  /\ Len(results[1]) < CONV_CALLS
  /\ Enter(1, Call(IterText(Len(results[1])) \o TextTesting, <<>>, NoWorld, DEFAULT_STEPS))

Conv10 ==
  /\ Len(v10.results) < CONV_CALLS
  /\ Process10(Call(IterText(Len(v10.results)), <<>>, NoWorld, DEFAULT_STEPS))

ConvNext ==
  \/ Conv9
  \/ EvolveIter(1)
  \/ Govern(1)
  \/ RebuildIter(1)
  \/ Restore(1)
  \/ Return(1)
  \/ Conv10
  \/ Evolve10
  \/ Govern10
  \/ Rebuild10
  \/ Return10

SpecConv == Init /\ [][ConvNext]_vars

\* --- two engines whose process calls run at the same time, one thread each:
\* a call may begin while the other engine's call is between two of its steps
MaxParCalls == 1

ParBegin(e, inp) ==
  /\ Len(results[e]) < MaxParCalls
  /\ Enter(e, inp)

ParNext ==
  \/ \E e \in ENGINES, inp \in Inputs : ParBegin(e, inp)
  \/ \E e \in ENGINES : EvolveIter(e)
  \/ \E e \in ENGINES : Govern(e)
  \/ \E e \in ENGINES : RebuildIter(e)
  \/ \E e \in ENGINES : Restore(e)
  \/ \E e \in ENGINES : Return(e)

SpecPar == Init /\ [][ParNext]_vars

\* ------------------------------------------------------------------------
\* Component operations called directly, outside an engine.  bench holds the
\* last call: its arguments and what it returned, and for the stateful
\* components (guardian, memory) the object after the call.
\* ------------------------------------------------------------------------
MaxPrime == 2
MaxAbsorb == 4

\* component values a caller may pass to the constructor
RawTension == {-500, 2000}
RawKappa == {-5000, 0, 800, 20000}
RawTheta == {-1000, 0, 6283, 10000}
RawEnergy == {-1000, 0, 1000, 5000}
RawCoherence == {-500, 0, 600, 2000}

\* field states passed to the operations that take states
PsiPool ==
  {MkPsi(0, 800, 0, 1000, 500, 0), MkPsi(-300, 10, 6000, EPS, 0, 2),
   MkPsi(2000, 10000, 3000, 5000, 1000, 0), MkPsi(100, 500, 1000, 1000, 700, 1)}
BlendRates == {-500, 0, 500, 700, 1000, 1500}
Gradients == {-500, 0, 100}
BenchTexts ==
  {<<>>, <<32>>, <<32, 10, 9>>, TextHi, <<127466, 127468>>, <<97, 769>>,
   <<128104, 8205, 128105>>, <<20320, 22909>>, WorldCtx}
BenchCodes == {CodeDef, <<120, 61, 49>>, <<105, 109, 112, 111, 114, 116, 32, 120>>}

BNew(d, k, th, N, C) ==
  bench' = [op |-> "new", raw |-> <<d, k, th, N, C>>, out |-> MkPsi(d, k, th, N, C, 0)]

\* blend reads its operands and builds a new state: a0 and o0 are the
\* operands as passed, a and o the operands after the call
BBlend(a, o, al) ==
  bench' = [op |-> "blend", a0 |-> a, o0 |-> o, a |-> a, o |-> o, al |-> al,
            out |-> Blend(a, o, al)]

BBlend10(a, o, al) ==
  bench' = [op |-> "blend10", a0 |-> a, o0 |-> o, a |-> a, o |-> o, al |-> al,
            out |-> Blend10(a, o, al)]

BCopy(a) == bench' = [op |-> "copy", a |-> a, out |-> Copy(a)]

BKernel(psi, A, M, W, g) ==
  bench' = [op |-> "kernel", psi |-> psi, A |-> A, M |-> M, W |-> W, grad |-> g,
            out |-> Kernel(psi, A, M, W, g, alpha), after |-> KernelLeaves(psi, A, M, W)]

BEncText(text) == bench' = [op |-> "text", text |-> text, out |-> EncText(text)]

BEncCode(code) == bench' = [op |-> "code", text |-> code, out |-> EncCode(code)]

BProject(fields) == bench' = [op |-> "project", fields |-> fields, out |-> Project(fields)]

PsiNext ==
  /\ script = <<>>
  /\ bench = NoBench
  /\ \/ \E d \in RawTension, k \in RawKappa, th \in RawTheta, N \in RawEnergy,
          C \in RawCoherence : BNew(d, k, th, N, C)
     \/ \E a \in PsiPool, o \in PsiPool, al \in BlendRates : BBlend(a, o, al)
     \/ \E a \in PsiPool, o \in PsiPool, al \in BlendRates : BBlend10(a, o, al)
     \/ \E a \in PsiPool : BCopy(a)
     \/ \E psi \in PsiPool, A \in PsiPool, M \in PsiPool, W \in PsiPool \cup {NoPsi},
          g \in Gradients : BKernel(psi, A, M, W, g)
     \/ \E text \in BenchTexts : BEncText(text)
     \/ \E code \in BenchCodes : BEncCode(code)
     \/ \E n \in 0..3 : \E fields \in [1..n -> PsiPool] : BProject(fields)
  /\ UNCHANGED <<alpha, eng, frame, script, results, v10>>

SpecPsi == Init /\ [][PsiNext]_vars

\* --- the guardian, called directly ---------------------------------------
\* before- and after-states of the last enforce call
GBefore ==
  {MkPsi(0, 500, th, N, C, 0) : th \in {200, 3000, 6000}, N \in {EPS, 1000}, C \in {300, 900}}
GAfter ==
  {MkPsi(100, 700, th, N, C, 1) : th \in {100, 1000, 3500, 6100},
                                  N \in {EPS, 500, 1100, 5000}, C \in {0, 500}}
Losses == {900, 1000, 1200}
\* before- and after-states of the enforce calls made before the last one
GPrimeArgs ==
  {<<MkPsi(0, 500, 200, 1000, 300, 0), MkPsi(100, 700, 1000, 1100, 500, 1)>>,
   <<MkPsi(0, 500, 3000, 1000, 900, 0), MkPsi(100, 700, 100, 5000, 0, 1)>>}

GuardCall(g0, n, before, after, L, last) ==
  LET ge == GuardEnforce(g0, before, after, L)
  IN bench' = [op |-> "enforce", grd |-> ge.g, n |-> n, last |-> last, g0 |-> g0,
               before |-> before, after |-> after, L |-> L, out |-> ge.out]

BenchGuard == IF bench.op = "enforce" THEN bench.grd ELSE GuardInit
BenchCount == IF bench.op \in {"enforce", "absorb"} THEN bench.n ELSE 0
BenchRunLen == IF bench.op \in {"run", "fuse", "attractor"} THEN bench.n ELSE 0

\* an enforce call that more calls follow
BPrime(args, L) ==
  /\ bench.op \in {"none", "enforce"}
  /\ bench.op = "enforce" => ~bench.last
  /\ BenchCount < MaxPrime
  /\ GuardCall(BenchGuard, BenchCount + 1, args[1], args[2], L, FALSE)

\* the last enforce call of a sequence
BEnforce(before, after, L) ==
  /\ bench.op \in {"none", "enforce"}
  /\ bench.op = "enforce" => ~bench.last
  /\ GuardCall(BenchGuard, BenchCount + 1, before, after, L, TRUE)

GuardNext ==
  /\ script = <<>>
  /\ \/ \E args \in GPrimeArgs, L \in Losses : BPrime(args, L)
     \/ \E before \in GBefore, after \in GAfter, L \in Losses : BEnforce(before, after, L)
  /\ UNCHANGED <<alpha, eng, frame, script, results, v10>>

SpecGuard == Init /\ [][GuardNext]_vars

\* --- the memory field, called directly -----------------------------------
MemPool ==
  {MkPsi(100, 800, 500, 1000, 1000, 0), MkPsi(0, 300, 3600, 2000, 1000, 0),
   MkPsi(-200, 2000, 5200, 500, 300, 0)}
Rates == {200, 1000}

\* MemoryField.absorb on the memory of the bench; C_before is the coherence
\* read before the call
BAbsorb(psi, rate) ==
  /\ bench.op \in {"none", "absorb"}
  /\ BenchCount < MaxAbsorb
  /\ LET m0 == IF bench.op = "absorb" THEN bench.mem ELSE MemInit
     IN bench' = [op |-> "absorb", mem |-> MemAbsorb(m0, psi, rate), n |-> BenchCount + 1,
                  psi |-> psi, rate |-> rate, C_before |-> m0.M.C, m0 |-> m0]

MemNext ==
  /\ script = <<>>
  /\ \E psi \in MemPool, rate \in Rates : BAbsorb(psi, rate)
  /\ UNCHANGED <<alpha, eng, frame, script, results, v10>>

SpecMem == Init /\ [][MemNext]_vars

\* --- the attractor of a memory field, called after runs of absorb and
\* fuse calls --------------------------------------------------------------
MaxRun == 11
MaxSwitch == 1
FusePool == {<<MkPsi(100, 800, 500, 1000, 1000, 0)>>,
             <<MkPsi(100, 800, 500, 1000, 1000, 0), MkPsi(-200, 2000, 5200, 500, 300, 0)>>}

\* the memory the calls of this section act on, and what was done to it
RunMem == IF bench.op \in {"run", "fuse", "attractor"} THEN bench.mem ELSE MemInit
RunSwitches == IF bench.op \in {"run", "fuse", "attractor"} THEN bench.sw ELSE 0
RunLast == IF bench.op \in {"run", "fuse", "attractor"} THEN bench.last ELSE <<>>

\* whether the next call may be made with the argument arg: the callers of
\* this section change their argument at most MaxSwitch times
MayRun(arg) ==
  /\ bench.op \in {"none", "run", "fuse"}
  /\ BenchRunLen < MaxRun
  /\ RunLast \notin {<<>>, arg} => RunSwitches < MaxSwitch

RunRecord(op, mem, arg) ==
  [op |-> op, mem |-> mem, n |-> BenchRunLen + 1, last |-> arg,
   sw |-> IF RunLast \in {<<>>, arg} THEN RunSwitches ELSE RunSwitches + 1]

\* memory.absorb(psi) at the default rate
BRun(psi) ==
  /\ MayRun(<<psi>>)
  /\ bench' = RunRecord("run", MemAbsorb(RunMem, psi, ABSORB_RATE), <<psi>>)

\* memory.fuse(sources)
BFuse(sources) ==
  /\ MayRun(<<"fuse", sources>>)
  /\ bench' = RunRecord("fuse", MemFuse(RunMem, sources), <<"fuse", sources>>)

\* memory.attractor(): out is the state returned, ref the object it is
BAttractor ==
  /\ bench.op \in {"none", "run", "fuse"}
  /\ bench' = [op |-> "attractor", mem |-> RunMem, n |-> BenchRunLen,
               last |-> RunLast, sw |-> RunSwitches,
               out |-> MemAttractor(RunMem), ref |-> AttractorRef(RunMem)]

\* an assignment to fields of a state
Mutated(p) == [p EXCEPT !.C = 0, !.dPhi = p.dPhi + 500, !.th = (p.th + 1000) % TAU]

\* the memory after the caller assigned to fields of the object ref
MutateRef(mem, ref) ==
  CASE ref = "M_inf" -> [mem EXCEPT !.M = Mutated(mem.M)]
    [] ref = "limit_cycle" -> [mem EXCEPT !.lc = Mutated(mem.lc)]
    [] OTHER -> mem

\* the caller assigns to fields of the state attractor() returned, then
\* calls attractor() again
BMutate ==
  /\ bench.op = "attractor"
  /\ bench' = [op |-> "mutate", mem0 |-> bench.mem, out0 |-> bench.out,
               mem |-> MutateRef(bench.mem, bench.ref),
               out |-> MemAttractor(MutateRef(bench.mem, bench.ref))]

AttrNext ==
  /\ script = <<>>
  /\ \/ \E psi \in MemPool : BRun(psi)
     \/ \E sources \in FusePool : BFuse(sources)
     \/ BAttractor
     \/ BMutate
  /\ UNCHANGED <<alpha, eng, frame, script, results, v10>>

SpecAttr == Init /\ [][AttrNext]_vars

\* --- a long run of absorb calls on one memory field, past the capacity of
\* its history; log is every entry the calls appended, in call order ----------
MaxRing == 102
RingArgs ==
  <<MkPsi(100, 800, 500, 1000, 1000, 0), MkPsi(0, 300, 3600, 2000, 1000, 0),
    MkPsi(-200, 2000, 5200, 500, 300, 0)>>

\* the k-th absorb call of a run that started with argument number first
BRing(first) ==
  /\ bench.op \in {"none", "ring"}
  /\ bench.op = "ring" => first = bench.first /\ bench.n < MaxRing
  /\ \E n \in {IF bench.op = "ring" THEN bench.n ELSE 0} :
     \E mem \in {MemAbsorb(IF bench.op = "ring" THEN bench.mem ELSE MemInit,
                           RingArgs[((first + n) % Len(RingArgs)) + 1], ABSORB_RATE)} :
       bench' = [op |-> "ring", first |-> first, n |-> n + 1, mem |-> mem,
                 log |-> Append(IF bench.op = "ring" THEN bench.log ELSE <<>>,
                                Last(mem.hist))]

RingNext ==
  \/ bench = NoBench /\ Next
  \/ /\ script = <<>>
     /\ \E first \in 1..Len(RingArgs) : BRing(first)
     /\ UNCHANGED <<alpha, eng, frame, script, results, v10>>

SpecRing == Init /\ [][RingNext]_vars

\* --- every public operation: component calls on a fresh module, or engine
\* calls
APINext ==
  \/ bench = NoBench /\ Next
  \/ PsiNext
  \/ GuardNext

SpecAPI == Init /\ [][APINext]_vars

\* ------------------------------------------------------------------------
\* Properties
\* ------------------------------------------------------------------------
Calls(e) == 1..Len(results[e])
IsResult(r) == r.kind = "result"
BenchOps == {"new", "blend", "blend10", "copy", "kernel", "text", "code", "project", "enforce"}

\* C1: every field state returned by a public operation (constructor, blend,
\* copy, kernel, Encoder.text, Encoder.code, project, guardian enforce) and
\* every Result.output has k in [0.01, 10], 0 <= th < 2 pi, 0 <= C <= 1
\* and N > 0, whatever values went in.
C1_Bounds ==
  /\ bench.op \in BenchOps => InBounds(bench.out)
  /\ \A e \in ENGINES : \A c \in Calls(e) :
       IsResult(results[e][c]) => InBounds(results[e][c].output)

\* the constructor was given a negative curvature, a phase of 2 pi or more,
\* no energy and a coherence above 1
C1_Witness ==
  /\ bench.op = "new"
  /\ bench.raw[2] < 0 /\ bench.raw[3] >= TAU /\ bench.raw[4] <= 0 /\ bench.raw[5] > S

\* C2: two fresh engines given the same sequence of process calls return the
\* same signature and the same coherence for every call.
C2_Determinism ==
  \A c \in Calls(1) \cap Calls(2) :
    IsResult(results[1][c]) /\ IsResult(results[2][c]) =>
      /\ results[1][c].signature = results[2][c].signature
      /\ results[1][c].coherence = results[2][c].coherence

WhitespaceOnly(text) == \A i \in 1..Len(text) : IsSpace(text[i])

\* C3 as stated: the empty or whitespace-only string encodes to tension 0,
\* curvature 1, phase 0, coherence 0 and the energy at its floor.
C3_Original ==
  bench.op = "text" /\ WhitespaceOnly(bench.text) =>
    Vec(bench.out) = <<0, 1000, 0, EPS, 0>>

\* C3 amended: the empty or whitespace-only string encodes to the default
\* state of the constructor: tension 0, curvature 1, phase 0, energy 1,
\* coherence 0.5, step counter 0.
C3_Default ==
  bench.op = "text" /\ WhitespaceOnly(bench.text) =>
    /\ Vec(bench.out) = <<0, 1000, 0, 1000, 500>>
    /\ bench.out.t = 0

\* a string of several whitespace characters was encoded
C3_Witness == bench.op = "text" /\ Len(bench.text) > 1 /\ WhitespaceOnly(bench.text)

\* C4: process returns a Result and never raises, for every text, code,
\* world and max_steps, on a fresh engine and after earlier calls.
C4_NeverRaises ==
  \A e \in ENGINES : \A c \in Calls(e) : IsResult(results[e][c])

\* C5: the evolve loop runs at most max_steps iterations and stops right
\* after the first one that ends with coherence above 0.95; Result.steps is
\* the number of iterations run.
C5_Steps ==
  \A e \in ENGINES :
    /\ frame[e].pc # "idle" => frame[e].i <= frame[e].inp.max_steps
    /\ \A c \in Calls(e) :
         LET r == results[e][c] IN
         IsResult(r) =>
           /\ r.steps = r.iters
           /\ r.steps <= r.inp.max_steps
           /\ \A i \in 1..(r.steps - 1) : r.traj[i] <= 950
           /\ r.steps < r.inp.max_steps => r.steps >= 1 /\ r.traj[r.steps] > 950

\* a call stopped before max_steps, after more than one iteration
C5_Witness ==
  \E e \in ENGINES : \E c \in Calls(e) :
    /\ IsResult(results[e][c])
    /\ results[e][c].steps > 1
    /\ results[e][c].steps < results[e][c].inp.max_steps

\* C6: the governor decision of a Result is allow or rebuild (of the set
\* allow, rebuild, block), it is rebuild exactly when Result.maat < 0.75,
\* and decision and score are those judged on the state at the end of the
\* evolve phase.
C6_Governor ==
  \A e \in ENGINES : \A c \in Calls(e) :
    LET r == results[e][c] IN
    IsResult(r) =>
      /\ r.governor \in {"allow", "rebuild", "block"}
      /\ r.governor = "rebuild" <=> r.maat < 750
      /\ r.governor # "rebuild" => r.governor = "allow"
      /\ Judge(r.lang, r.judged, r.W).score = r.maat

\* one engine returned a rebuilt result whose final state would be judged
\* differently, and an allowed result
C6_Witness ==
  \E e \in ENGINES : \E c \in Calls(e), d \in Calls(e) :
    /\ IsResult(results[e][c]) /\ IsResult(results[e][d])
    /\ results[e][c].governor = "rebuild"
    /\ Judge(results[e][c].lang, results[e][c].output, results[e][c].W).score
         # results[e][c].maat
    /\ results[e][d].governor = "allow"

\* C7: Result.awareness is in [0, 1] and Result.awareness_level is its
\* label on the five-level scale; a fresh awareness field is dormant.
C7_Awareness ==
  \A e \in ENGINES :
    /\ eng[e].step = 0 => AwLevel(eng[e].aw) = "dormant"
    /\ \A c \in Calls(e) :
         LET r == results[e][c] IN
         IsResult(r) =>
           /\ 0 <= r.awareness /\ r.awareness <= 1000
           /\ r.awareness < 200 <=> r.awareness_level = "dormant"
           /\ (200 <= r.awareness /\ r.awareness < 400) <=> r.awareness_level = "emerging"
           /\ (400 <= r.awareness /\ r.awareness < 600) <=> r.awareness_level = "aware"
           /\ (600 <= r.awareness /\ r.awareness < 800) <=> r.awareness_level = "conscious"
           /\ 800 <= r.awareness <=> r.awareness_level = "fully_conscious"

\* one engine returned results on two different levels above dormant
C7_Witness ==
  \E e \in ENGINES : \E c \in Calls(e), d \in Calls(e) :
    /\ IsResult(results[e][c]) /\ IsResult(results[e][d])
    /\ results[e][c].awareness_level = "emerging"
    /\ results[e][d].awareness_level \in {"aware", "conscious", "fully_conscious"}

\* C8: after an absorb call the memory coherence is at least 0.99 times the
\* value it had before the call, so it drops by at most 0.01.
C8_MemoryFloor ==
  bench.op = "absorb" =>
    /\ bench.mem.M.C >= Mul(bench.C_before, 990)
    /\ bench.C_before - bench.mem.M.C <= 10

\* the memory coherence dropped in an absorb call on a history of 3 or more
C8_Witness ==
  /\ bench.op = "absorb"
  /\ Len(bench.mem.hist) >= 3
  /\ bench.mem.M.C < bench.C_before

\* C9: a kernel application returns the input's step counter plus 1 and
\* the input's coherence.
C9_Kernel ==
  bench.op = "kernel" =>
    /\ bench.out.t = bench.psi.t + 1
    /\ bench.out.C = bench.psi.C

\* the kernel ran with a world state, a gradient, and an attractor and a
\* memory whose coherence and step counter differ from the input's
C9_Witness ==
  /\ bench.op = "kernel"
  /\ IsPsi(bench.W) /\ bench.grad # 0
  /\ bench.A.C # bench.psi.C /\ bench.M.C # bench.psi.C
  /\ bench.A.t > bench.psi.t

\* C10: the state returned by enforce has its energy within 0.2 of the
\* before-state's energy, relatively: |N_result / N_before - 1| <= 0.2.
C10_EnergyBand ==
  bench.op = "enforce" =>
    Abs(Div(bench.out.N, bench.before.N) - S) <= ENERGY_D

\* an engine whose running call has finished at least one loop iteration
Iterated(e) == frame[e].pc # "idle" /\ IsPsi(frame[e].before)

\* C11: the wrapped phase difference between the state enforce returns and
\* the before-state is at most pi/2, for every before- and after-state; in
\* a process call the working states of two consecutive iterations are at
\* most pi/2 apart in phase.
C11_PhaseContinuity ==
  /\ bench.op = "enforce" => PhaseGap(bench.before.th, bench.out.th) <= PHASE_MAX
  /\ \A e \in ENGINES :
       Iterated(e) => PhaseGap(frame[e].before.th, frame[e].cur.th) <= PHASE_MAX

\* enforce was given an after-state more than pi/2 from the before-state,
\* on the far side of the wrap
C11_Witness ==
  /\ bench.op = "enforce"
  /\ PhaseGap(bench.before.th, bench.after.th) > PHASE_MAX
  /\ Abs(bench.after.th - bench.before.th) > PI

\* C12: between consecutive enforce calls the guardian's floor drops by at
\* most 0.002; the state enforce returns has coherence at least the floor
\* and at least the before-state's coherence minus 0.1; in a process call
\* the working coherence drops by at most 0.1 from one iteration to the
\* next, in the evolve phase and in the rebuild phase.
C12_CoherenceFloor ==
  /\ bench.op = "enforce" =>
       /\ bench.grd.floor >= bench.g0.floor - 2
       /\ bench.out.C >= bench.grd.floor
       /\ bench.out.C >= bench.before.C - 100
  /\ \A e \in ENGINES :
       Iterated(e) => frame[e].cur.C >= frame[e].before.C - 100

\* an enforce call after an earlier one let the floor decay below its old
\* value and raised the after-state's coherence to it
C12_Witness ==
  /\ bench.op = "enforce" /\ bench.n >= 2
  /\ bench.g0.floor > 0 /\ bench.grd.floor < bench.g0.floor
  /\ bench.after.C < bench.grd.floor
  /\ bench.out.C = bench.grd.floor

\* the memory holds a learned limit cycle more coherent than M
CycleAbove(mem) == IsPsi(mem.lc) /\ mem.lc.C > mem.M.C

\* C14 as stated: after any sequence of absorb and fuse calls attractor()
\* returns the five components of the memory's internal state M.
C14_Original ==
  bench.op = "attractor" => Vec(bench.out) = Vec(bench.mem.M)

\* C14 amended: attractor() returns a fresh copy of the learned limit cycle
\* when one was detected and its coherence is above that of M, and a fresh
\* copy of M otherwise; assigning to the returned state changes neither the
\* memory nor what the next attractor() call returns.
C14_Attractor ==
  /\ bench.op = "attractor" =>
       /\ bench.ref = "fresh"
       /\ Vec(bench.out) = IF CycleAbove(bench.mem) THEN Vec(bench.mem.lc)
                                                    ELSE Vec(bench.mem.M)
  /\ bench.op = "mutate" => bench.mem = bench.mem0 /\ bench.out = bench.out0

\* attractor() was called on a memory whose limit cycle is more coherent
\* than M and differs from it
C14_Witness ==
  /\ bench.op = "attractor"
  /\ CycleAbove(bench.mem)
  /\ Vec(bench.mem.lc) # Vec(bench.mem.M)

\* C13: the rebuild phase runs exactly when the score is below 0.75 and
\* then makes exactly 10 kernel applications; when process returns the
\* damping rate is the one it was called with, so every call starts with
\* the original rate 0.15; a call makes at most max_steps + 10 kernel
\* applications.
C13_Rebuild ==
  \A e \in ENGINES : \A c \in Calls(e) :
    LET r == results[e][c] IN
    /\ r.al_in = ALPHA0
    /\ IsResult(r) =>
         /\ r.al_out = r.al_in
         /\ r.kcalls = r.iters + (IF r.maat < 750 THEN REBUILD_N ELSE 0)
         /\ r.kcalls <= r.inp.max_steps + REBUILD_N

\* no call of either engine has raised
NoRaise == \A e \in ENGINES : \A c \in Calls(e) : IsResult(results[e][c])

\* C13 holds on the calls made while no call has raised
C13_RebuildIfNoRaise == NoRaise => C13_Rebuild

\* the four trend buffers of an awareness field
Buffers(aw) == {aw.bC, aw.bk, aw.bdiv, aw.balign}

\* C15: after n absorb calls the memory history holds min(n, 100) entries,
\* the most recent ones in call order; after m evolve calls each awareness
\* trend buffer holds min(m, 20) entries; no buffer of an engine exceeds its
\* capacity.
C15_Rings ==
  /\ bench.op = "ring" =>
       /\ Len(bench.mem.hist) = Min2(bench.n, 100)
       /\ bench.mem.hist = SubSeq(bench.log, bench.n - Min2(bench.n, 100) + 1, bench.n)
  /\ \A e \in ENGINES :
       /\ \A b \in Buffers(eng[e].aw) : Len(b) = Min2(eng[e].n_calls, 20)
       /\ Len(eng[e].mem.hist) <= 100

\* a run of absorb calls went past the capacity and the oldest entry, which
\* differs from the oldest one kept, is gone
C15_Witness ==
  /\ bench.op = "ring"
  /\ bench.n > HIST_CAP
  /\ bench.mem.hist[1] # bench.log[1]
  /\ bench.mem.hist[1] = bench.log[bench.n - HIST_CAP + 1]

\* what a caller sees of a Result
Seen(r) ==
  <<r.output, r.coherence, r.maat, r.awareness, r.awareness_level, r.governor,
    r.steps, r.signature>>

AllReturned == \A e \in ENGINES : frame[e].pc = "idle" /\ results[e] # <<>>

\* C16: two engines share no mutable state.  When process calls on the two
\* engines run interleaved, each returns what it returns alone, which for
\* two engines given the same calls is the same Result, and after both have
\* returned the damping rate is 0.15.  Stated for the runs in which no call
\* raises, where the claim fails already.
C16_Isolation ==
  AllReturned /\ NoRaise =>
    /\ alpha = ALPHA0
    /\ \A c \in Calls(1) \cap Calls(2) : Seen(results[1][c]) = Seen(results[2][c])

\* C17 as stated: the steps a release 10.0 process call reports is the
\* number of evolve iterations the call ran, for the first and for every
\* later call on the engine.
C17_Steps ==
  \A c \in 1..Len(v10.results) :
    IsResult(v10.results[c]) => v10.results[c].steps = v10.results[c].iters

\* C19: after five consecutive calls with the texts of verify and the default
\* max_steps, the fifth call of either release reports a coherence above 0.9.
C19_Convergence ==
  /\ Len(results[1]) = CONV_CALLS =>
       IsResult(results[1][CONV_CALLS]) /\ results[1][CONV_CALLS].coherence > 900
  /\ Len(v10.results) = CONV_CALLS =>
       IsResult(v10.results[CONV_CALLS]) /\ v10.results[CONV_CALLS].coherence > 900

\* both engines have returned from their fifth call
C19_Witness ==
  /\ Len(results[1]) = CONV_CALLS /\ Len(v10.results) = CONV_CALLS
  /\ results[1][CONV_CALLS].inp.text = IterText(4) \o TextTesting
  /\ v10.results[CONV_CALLS].inp.text = IterText(4)

\* C18: the blend of two field states, at any rate, has the step counter
\* max(self.t, other.t) + 1 and the coherence max(self.C, other.C), in both
\* releases, and leaves its operands as they were.
C18_Blend ==
  bench.op \in {"blend", "blend10"} =>
    /\ bench.out.t = Max2(bench.a0.t, bench.o0.t) + 1
    /\ bench.out.C = Max2(bench.a0.C, bench.o0.C)
    /\ bench.a = bench.a0 /\ bench.o = bench.o0

\* a blend whose right operand has the later step and the higher coherence,
\* at a rate outside [0, 1]
C18_Witness ==
  /\ bench.op = "blend"
  /\ bench.o0.t > bench.a0.t /\ bench.o0.C > bench.a0.C
  /\ bench.al > S

\* C20 as stated: in a process call the step counter of the working state
\* advances by exactly 1 in every iteration of the evolve and the rebuild
\* loop, and the t of the returned output is the number of kernel
\* applications of the call.
C20_StepCounter ==
  \A e \in ENGINES :
    /\ Iterated(e) => frame[e].cur.t = frame[e].before.t + 1
    /\ \A c \in Calls(e) :
         IsResult(results[e][c]) => results[e][c].output.t = results[e][c].kcalls

\* the rotational direction of the shortest arc from the phase thb to the
\* phase tha: 1 for increasing phase, -1 for decreasing phase
ArcSign(thb, tha) ==
  IF (tha - thb) % TAU = 0 THEN 0 ELSE IF (tha - thb) % TAU <= PI THEN 1 ELSE -1

\* an enforce call that clipped the phase and returned it without the
\* damping blend
Clipped ==
  /\ bench.op = "enforce"
  /\ ~LossWorse(bench.L, bench.g0.Lprev)
  /\ PhaseGap(bench.before.th, bench.after.th) > PHASE_MAX

\* C21 as stated: a clipped phase lies pi/2 from the before-state's phase in
\* the direction of the shortest arc from the before-state to the
\* after-state, also when that arc crosses the wrap-around at 0.
C21_ClipDirection ==
  Clipped =>
    bench.out.th = (bench.before.th
                    + ArcSign(bench.before.th, bench.after.th) * PHASE_MAX) % TAU

\* the same, for the calls whose shortest arc does not cross the wrap-around
C21_NoWrap ==
  Clipped /\ Abs(bench.after.th - bench.before.th) <= PI =>
    bench.out.th = (bench.before.th
                    + ArcSign(bench.before.th, bench.after.th) * PHASE_MAX) % TAU

\* C22: enforce returns the damping blend 0.7 * before + 0.3 * corrected
\* after exactly when the loss it is given exceeds 1.3 times the loss given
\* to the previous enforce call since the last reset (never on the first
\* call), and it remembers the loss it was given on every call.  The blend
\* shows in the step counter max(before.t, after.t) + 1 and in the tension,
\* which no invariant corrects.
C22_Damping ==
  bench.op = "enforce" =>
    /\ bench.grd.Lprev = [inf |-> FALSE, v |-> bench.L]
    /\ IF bench.n > 1 /\ bench.L > Mul(bench.g0.Lprev.v, 1300)
       THEN /\ bench.out.t = Max2(bench.before.t, bench.after.t) + 1
            /\ bench.out.dPhi = Mul(700, bench.before.dPhi) + Mul(300, bench.after.dPhi)
       ELSE /\ bench.out.t = bench.after.t
            /\ bench.out.dPhi = bench.after.dPhi

\* a damped call after an undamped one, and a call whose loss rose by less
\* than the factor 1.3
C22_Witness ==
  /\ bench.op = "enforce" /\ bench.n = 3
  /\ bench.g0.Lprev.v = 900 /\ bench.L = 1200
  /\ bench.out.t = 2

C22_WitnessBelow ==
  /\ bench.op = "enforce" /\ bench.n > 1
  /\ bench.g0.Lprev.v = 1000 /\ bench.L = 1200
  /\ bench.out.t = 1

\* C23: every process call starts with the guardian's floor at 0 and its
\* previous loss at infinity, so the first enforce call of a process call
\* applies no damping blend (the step counter advances by 1) and sets the
\* floor from the before-state of that call alone.
C23_GuardScope ==
  \A e \in ENGINES :
    /\ frame[e].pc = "evolve" /\ frame[e].kcalls = 0 =>
         eng[e].guard.floor = 0 /\ eng[e].guard.Lprev.inf
    /\ frame[e].pc # "idle" /\ frame[e].kcalls = 1 =>
         /\ frame[e].cur.t = frame[e].before.t + 1
         /\ eng[e].guard.floor = Max2(0, frame[e].before.C - 100)

\* a later call on an engine has made its first enforce call, after a call
\* that left the guardian with a floor above that call's floor
C23_Witness ==
  \E e \in ENGINES :
    /\ Len(results[e]) >= 1 /\ IsResult(results[e][1]) /\ results[e][1].kcalls >= 2
    /\ frame[e].pc # "idle" /\ frame[e].kcalls = 1
    /\ eng[e].guard.floor < results[e][1].output.C - 102

MaxText == 5

\* a space, a letter, the joiner, a combining mark, a regional indicator
GraphChars == {32, 97, ZWJ, 769, RI_LO}

\* the strings are enumerated by length: the empty string first, then the
\* string of the call before with one more character
GraphTexts ==
  IF bench = NoBench THEN {<<>>}
  ELSE IF bench.op = "graphemes" /\ Len(bench.text) < MaxText
  THEN {Append(bench.text, c) : c \in GraphChars}
  ELSE {}

\* one call Encoder.graphemes(text)
BGraphemes(text) ==
  /\ bench' = [op |-> "graphemes", text |-> text, out |-> Graphemes(text)]
  /\ UNCHANGED <<alpha, eng, frame, script, results, v10>>

GraphNext == \E text \in GraphTexts : BGraphemes(text)

SpecGraph == Init /\ [][GraphNext]_vars

\* a base character followed by joiner continuations (the joiner and the
\* character after it) and nothing else
JoinerChain(text) ==
  /\ Len(text) % 2 = 1
  /\ ~IsSpace(text[1])
  /\ \A j \in 1..Len(text) : j % 2 = 0 => text[j] = ZWJ

\* an even number of regional indicators and nothing else
RIRun(text) == Len(text) % 2 = 0 /\ \A j \in 1..Len(text) : IsRI(text[j])

\* C25: graphemes returns for every finite string (out is a finite list of
\* clusters); a base followed by k joiner continuations is exactly one
\* cluster, 2k consecutive regional indicators are exactly k clusters.
C25_Clusters ==
  bench.op = "graphemes" =>
    /\ Len(bench.out) <= Len(bench.text)
    /\ JoinerChain(bench.text) => Len(bench.out) = 1
    /\ RIRun(bench.text) => Len(bench.out) = Len(bench.text) \div 2

\* a base with two joiner continuations, in one cluster
C25_Witness ==
  /\ bench.op = "graphemes"
  /\ JoinerChain(bench.text) /\ Len(bench.text) = 5
  /\ bench.out = <<bench.text>>

\* four regional indicators, in two clusters
C25_WitnessRI ==
  /\ bench.op = "graphemes"
  /\ RIRun(bench.text) /\ Len(bench.text) = 4
  /\ Len(bench.out) = 2

RECURSIVE Concat(_)
Concat(clusters) ==
  IF clusters = <<>> THEN <<>> ELSE Head(clusters) \o Concat(Tail(clusters))

NotSpace(c) == ~IsSpace(c)

\* C27: every cluster graphemes returns is non-empty and holds no
\* whitespace, and the clusters concatenated are the input with its
\* whitespace removed.
C27_Partition ==
  bench.op = "graphemes" =>
    /\ \A k \in 1..Len(bench.out) :
         /\ bench.out[k] # <<>>
         /\ \A j \in 1..Len(bench.out[k]) : ~IsSpace(bench.out[k][j])
    /\ Concat(bench.out) = SelectSeq(bench.text, NotSpace)

\* C26: after absorb returns, the newest entry of the memory's history equals
\* the memory state as it is after that absorb, in all five components.
C26_NewestEntry ==
  bench.op = "absorb" =>
    Vec(bench.mem.hist[Len(bench.mem.hist)]) = Vec(bench.mem.M)

\* the part of C26 that holds: the newest entry equals the memory state in the
\* four components absorb blends before it appends
C26_NewestBlended ==
  bench.op = "absorb" =>
    /\ bench.mem.hist[Len(bench.mem.hist)].dPhi = bench.mem.M.dPhi
    /\ bench.mem.hist[Len(bench.mem.hist)].k = bench.mem.M.k
    /\ bench.mem.hist[Len(bench.mem.hist)].th = bench.mem.M.th
    /\ bench.mem.hist[Len(bench.mem.hist)].N = bench.mem.M.N

\* C28: in a call that ran at least one evolve iteration, the coherence
\* gradient passed to the kernel is 0 in every rebuild iteration.
C28_RebuildGradient ==
  \A e \in ENGINES :
    (frame[e].pc = "rebuild" /\ frame[e].i >= 1 /\ frame[e].j >= 1) => frame[e].grad = 0

\* a call whose evolve loop ran, after the last of its rebuild iterations
C28_Witness ==
  \E e \in ENGINES :
    /\ frame[e].pc = "rebuild" /\ frame[e].i >= 1 /\ frame[e].j = REBUILD_N
    /\ frame[e].grad = 0

\* C30: for every call with max_steps >= 1 the coherence process reports is
\* at least the coherence of the memory state at the moment process returns.
C30_ReportedCoherence ==
  \A e \in ENGINES :
    (frame[e].pc = "return" /\ frame[e].inp.max_steps >= 1) =>
      frame[e].cur.C >= eng[e].mem.M.C

\* a call that ran evolve iterations and all rebuild iterations, about to
\* return a coherence that is at least the memory's
C30_Witness ==
  \E e \in ENGINES :
    /\ frame[e].pc = "return" /\ frame[e].inp.max_steps >= 1
    /\ frame[e].i >= 1 /\ frame[e].j = REBUILD_N
    /\ frame[e].cur.C >= eng[e].mem.M.C

\* ---- calls of one engine with and without world sources ----

WorldAlt == <<33, 63>>

WorldInputs ==
  {Call(TextHi, <<>>, NoWorld, 1),
   Call(TextHi, <<>>, [ctx |-> WorldCtx], 1),
   Call(TextHi, <<>>, [ctx |-> WorldAlt], 1),
   Call(TextHi, <<>>, [env |-> WorldAlt], 1)}

WorldNext ==
  \/ \E inp \in WorldInputs : Start(1, inp)
  \/ EvolveIter(1)
  \/ Govern(1)
  \/ RebuildIter(1)
  \/ Restore(1)
  \/ Return(1)

SpecWorld == Init /\ [][WorldNext]_vars

\* the number of calls engine e has entered
CallsEntered(e) == Len(results[e]) + IF frame[e].pc = "idle" THEN 0 ELSE 1

\* the sources the first n calls of the script supplied, a later text for a
\* source id in the place of an earlier one
RECURSIVE SourcesAfter(_, _)
SourcesAfter(scr, n) ==
  IF n = 0 THEN <<>>
  ELSE [x \in DOMAIN SourcesAfter(scr, n - 1) \cup DOMAIN scr[n].world |->
          IF x \in DOMAIN scr[n].world THEN EncText(scr[n].world[x])
          ELSE SourcesAfter(scr, n - 1)[x]]

\* the fields a call projects, with world field W
ProjectedWith(F, E, W) ==
  <<F.lang, MemAttractor(E.mem), E.aw.field>>
  \o (IF IsPsi(F.code) THEN <<F.code>> ELSE <<>>)
  \o (IF IsPsi(W) THEN <<W>> ELSE <<>>)

\* C29: the world sources persist across calls.  The sources of an engine are
\* those all its calls so far supplied, a re-supplied id replacing the
\* earlier entry; the world field of a call is built from them also when the
\* call omits the world argument, is absent only while no call supplied a
\* source, and is the one the projection and the governor's score use.
C29_WorldPersists ==
  \A e \in ENGINES :
    /\ eng[e].world = SourcesAfter(script, CallsEntered(e))
    /\ frame[e].pc # "idle" =>
         /\ frame[e].W = WorldField(SourcesAfter(script, CallsEntered(e)))
         /\ IsPsi(frame[e].W) <=>
              \E k \in 1..CallsEntered(e) : DOMAIN script[k].world # {}
    /\ (frame[e].pc = "evolve" /\ frame[e].kcalls = 0) =>
         frame[e].cur =
           Project(ProjectedWith(frame[e], eng[e],
                                 WorldField(SourcesAfter(script, CallsEntered(e)))))
    /\ \A k \in 1..Len(results[e]) :
         results[e][k].kind = "result" =>
           /\ results[e][k].W = WorldField(SourcesAfter(script, k))
           /\ results[e][k].maat =
                Judge(results[e][k].lang, results[e][k].judged,
                      WorldField(SourcesAfter(script, k))).score

\* a call with the world argument omitted, after a call that supplied a
\* source, returned with a world field present
C29_Witness ==
  \E k \in 1..Len(results[1]) :
    /\ results[1][k].kind = "result"
    /\ DOMAIN results[1][k].inp.world = {}
    /\ IsPsi(results[1][k].W)

\* a second call that supplied another text for the source id of the first,
\* returned with the later text as the only source
C29_WitnessReplaced ==
  /\ Len(results[1]) = 2
  /\ script[1].world = [ctx |-> WorldCtx]
  /\ script[2].world = [ctx |-> WorldAlt]
  /\ eng[1].world = [ctx |-> EncText(WorldAlt)]
  /\ EncText(WorldAlt) # EncText(WorldCtx)

====
